---- MODULE Spec2Model ----
(***************************************************************************)
(* A model of rust-media: the playback scheduler (src/playback.rs) driving *)
(* a container reader (src/container.rs and src/containers/*.rs), and the  *)
(* GIF container and decoder (src/containers/gif.rs).                      *)
(*                                                                         *)
(* Player::decode_frame is modelled one loop iteration per step; the field *)
(* pc is the position inside the call ("idle" between calls).  The host    *)
(* calls decode_frame() and advance() only when pc = "idle".               *)
(***************************************************************************)
EXTENDS Integers, Sequences, FiniteSets, TLC

VARIABLES
    reader,                         \* Player.reader: the container
    video,                          \* Player.video: Option<VideoPlayerInfo>
    audio,                          \* Player.audio: Option<AudioPlayerInfo>
    cluster_index,                  \* Player.cluster_index
    frame_delay,                    \* Player.frame_delay: Option<i64>
    last_frame_presentation_time,   \* Option<Timestamp>
    next_frame_presentation_time,   \* Option<Timestamp>
    pc,                             \* position inside decode_frame()
    call,                           \* the host's latest call
    result,                         \* what the latest finished call returned
    returned,                       \* the DecodedFrame of the latest Ok advance()
    shown,                          \* history: video frames handed out by advance()
    protocol,                       \* history: every advance() directly followed an Ok decode_frame()
    paired,                         \* history: the calls were decode_frame(), advance() in turn, all Ok
    heard,                          \* history: the audio frames decoded so far
    input,                          \* the arguments of a function called on its own
    output                          \* what that function returned

vars == << reader, video, audio, cluster_index, frame_delay,
           last_frame_presentation_time, next_frame_presentation_time,
           pc, call, result, returned, shown, protocol, paired, heard,
           input, output >>

----------------------------------------------------------------------------
(* Bounds of the model.                                                    *)

\* Longest video-only stream (blocks and cluster boundaries together).
MaxBlocks == 4
\* Longest muxed audio+video stream, in blocks.
MaxMuxBlocks == 6
\* Most records (extensions and images) of a GIF stream.
MaxGifRecords == 4
\* Tallest interlaced image read line by line.
MaxImageHeight == 16
\* The free lists of H.264 headers have at most MaxHeaders headers.
MaxHeaders == 2
\* The longest list of equal H.264 headers.
MaxRepeat == 33
\* The blocks that follow the first two of a stream of frames near the
\* next frame's time.
MaxNearBlocks == 2
\* Largest cluster index asked of a track view.
MaxClusterIndex == 3
\* Most records of a GIF file, and most clusters of a segment, behind a track view.
MaxViewClusters == 2
\* Most tracks of a container given to Player::new.
MaxTracks == 3
\* Longest muxed stream with blocks the decoders reject.
MaxRejectBlocks == 5
\* The images of a GIF stream whose graphics control blocks name a disposal.
MaxDisposalImages == 3
\* The codes of a segment of an LZW stream, between two clear codes.
MaxSegmentCodes == 3
\* The codes of the long LZW stream, and the pixels of a line of its image.
MaxLongCodes == 3840

----------------------------------------------------------------------------
(* Option<T> as a sequence of at most one element, Vec<T> as a sequence.   *)

None == << >>
Some(x) == << x >>
IsSome(o) == Len(o) = 1
IsNone(o) == Len(o) = 0
Unwrap(o) == o[1]

\* Vec::remove(i), with i counted from 1.
Remove(s, i) == [ k \in 1..(Len(s) - 1) |-> IF k < i THEN s[k] ELSE s[k + 1] ]

SeqsUpTo(S, n) == UNION { [ 1..k -> S ] : k \in 0..n }

Abs(x) == IF x < 0 THEN -x ELSE x

----------------------------------------------------------------------------
(* src/timing.rs                                                           *)

NanosPerSecond == 1000000000

Timestamp(t, tps) == [ ticks |-> t, ticks_per_second |-> tps ]

\* impl Add<i64> for Timestamp
TimestampAdd(ts, other) == [ ts EXCEPT !.ticks = ts.ticks + other ]

\* Timestamp::duration: whole seconds and the nanoseconds left over.  The
\* timescales of the model divide 10^9, so the f64 quotients are exact.
Duration(ts) ==
    [ secs  |-> ts.ticks \div ts.ticks_per_second,
      nanos |-> (ts.ticks % ts.ticks_per_second)
                    * (NanosPerSecond \div ts.ticks_per_second) ]

\* Duration's derived ordering: a >= b.
DurationGe(a, b) == a.secs > b.secs \/ (a.secs = b.secs /\ a.nanos >= b.nanos)

DurationLt(a, b) == ~DurationGe(a, b)

----------------------------------------------------------------------------
(* A container of clusters of blocks, each block one encoded frame of one  *)
(* track: what the Track, Cluster and Frame traits of src/container.rs     *)
(* expose, with read_frame as src/containers/mkv.rs scans for it.          *)
(* reader.clusters is the list of clusters; a block is                     *)
(* [track_number, time, rendering_offset, ok], ok being whether the        *)
(* track's decoder accepts the frame.                                      *)

\* Ticks per second of the block timecodes (time_code_scale of 1 ms).
TicksPerSecond == 1000

Block(track, time, offset, ok) ==
    [ track_number |-> track, time |-> time, rendering_offset |-> offset, ok |-> ok ]

\* A scan that counts the blocks of every track.
ScanBlocksOfAnyTrack(cluster, block_index, current_frame_index, frame_index, track_number) ==
    IF block_index + frame_index > Len(cluster) THEN 0 ELSE block_index + frame_index

\* ClusterImpl::read_frame: the position in the cluster of the frame_index-th
\* block (from 0) of the track, scanning from block_index with
\* current_frame_index blocks of the track already passed; 0 when the
\* cluster has no such block (Err).
RECURSIVE ScanBlocks(_, _, _, _, _)
ScanBlocks(cluster, block_index, current_frame_index, frame_index, track_number) ==
    IF block_index > Len(cluster)
    THEN 0
    ELSE IF cluster[block_index].track_number = track_number
         THEN IF current_frame_index = frame_index
              THEN block_index
              ELSE ScanBlocks(cluster, block_index + 1, current_frame_index + 1,
                              frame_index, track_number)
         ELSE ScanBlocks(cluster, block_index + 1, current_frame_index,
                         frame_index, track_number)

\* The container::Frame of a block: track_number, time and rendering_offset
\* as the block has them; source names the block, data is the codec's business.
BlockFrame(rd, ci, bi) ==
    LET block == rd.clusters[ci + 1][bi]
    IN  [ track_number     |-> block.track_number,
          time             |-> Timestamp(block.time, TicksPerSecond),
          rendering_offset |-> block.rendering_offset,
          ok               |-> block.ok,
          source           |-> << ci, bi >> ]

BlocksReadFrame(rd, ci, frame_index, track_number) ==
    LET bi == ScanBlocks(rd.clusters[ci + 1], 1, 0, frame_index, track_number)
    IN  IF bi = 0 THEN None ELSE Some(BlockFrame(rd, ci, bi))

\* Track::cluster(cluster_index): a cluster for the clusters the container
\* has, Err past the last one.
BlocksCluster(rd, ci) ==
    [ status |-> IF ci < Len(rd.clusters) THEN "Ok" ELSE "Err", reader |-> rd ]

----------------------------------------------------------------------------
(* src/containers/gif.rs: the GIF container.  reader.records are the       *)
(* records of the stream after the screen descriptor, the trailer being    *)
(* the end of the list; an extension record is [type, function, DelayTime] *)
(* and an image record [type, Width, Height, Interlace, ColorMap, lines],  *)
(* lines being the decompressed rows in stream order.                      *)

\* INTERLACED_OFFSETS and INTERLACED_JUMPS of FileType::read_image.
INTERLACED_OFFSETS == << 0, 4, 2, 1 >>
INTERLACED_JUMPS == << 8, 8, 4, 2 >>

RECURSIVE Flatten(_)
Flatten(rows) == IF rows = << >> THEN << >> ELSE Head(rows) \o Flatten(Tail(rows))

\* The loop condition of one interlace pass: while j <= Height.
InterlacePassGoesOn(j, Height) == j <= Height

\* One step of the four passes of read_image.  st is [i, j, n, rows, status]:
\* the pass i (from 1), the row j, the number n of lines read so far, rows the
\* destination rows written (row index -> line number), status "reading",
\* "done" or "panic" (a destination slice outside raster_bits).
InterlaceStep(st, Width, Height) ==
    IF st.i > Len(INTERLACED_OFFSETS)
    THEN [ st EXCEPT !.status = "done" ]
    ELSE IF ~InterlacePassGoesOn(st.j, Height)
         THEN IF st.i = Len(INTERLACED_OFFSETS)
              THEN [ st EXCEPT !.i = st.i + 1, !.status = "done" ]
              ELSE [ st EXCEPT !.i = st.i + 1, !.j = INTERLACED_OFFSETS[st.i + 1] ]
         ELSE IF (st.j + 1) * Width > Width * Height
              THEN [ st EXCEPT !.status = "panic" ]
              ELSE [ st EXCEPT !.rows = Append(st.rows, st.j),
                               !.n = st.n + 1,
                               !.j = st.j + INTERLACED_JUMPS[st.i] ]

InterlaceStart == [ i |-> 1, j |-> INTERLACED_OFFSETS[1], n |-> 0, rows |-> << >>,
                    status |-> "reading" ]

RECURSIVE InterlaceRun(_, _, _)
InterlaceRun(st, Width, Height) ==
    IF st.status # "reading"
    THEN st
    ELSE InterlaceRun(InterlaceStep(st, Width, Height), Width, Height)

\* The raster an interlaced image's rows end up as: row r holds the line
\* that was read into it (the last one, were a row written twice).
RowLine(rows, r) ==
    LET ks == { k \in 1..Len(rows) : rows[k] = r }
    IN  IF ks = {} THEN 0 ELSE CHOOSE k \in ks : \A m \in ks : m <= k

\* FileType::read_image: [status, RasterBits].
ReadImage(image) ==
    IF image.Interlace
    THEN LET st == InterlaceRun(InterlaceStart, image.Width, image.Height)
         IN  IF st.status = "panic"
             THEN [ status |-> "panic", RasterBits |-> << >> ]
             ELSE [ status |-> "Ok",
                    RasterBits |-> Flatten([ r \in 1..image.Height |->
                        IF RowLine(st.rows, r - 1) = 0
                        THEN [ c \in 1..image.Width |-> 0 ]
                        ELSE image.lines[RowLine(st.rows, r - 1)] ]) ]
    ELSE [ status |-> "Ok", RasterBits |-> Flatten(image.lines) ]

\* FileType::read_record: [status, reader], status "more" (Ok(true)),
\* "end" (Ok(false)) or "panic".
ReadRecord(rd) ==
    IF rd.next_record > Len(rd.records)
    THEN [ status |-> "end", reader |-> rd ]
    ELSE LET rec == rd.records[rd.next_record]
         IN  IF rec.type = "image"
             THEN LET img == ReadImage(rec)
                  IN  IF img.status = "panic"
                      THEN [ status |-> "panic", reader |-> rd ]
                      ELSE [ status |-> "more",
                             reader |-> [ rd EXCEPT
                                 !.SavedImages = Append(rd.SavedImages,
                                     [ Width |-> rec.Width, Height |-> rec.Height,
                                       Interlace |-> rec.Interlace,
                                       ColorMap |-> rec.ColorMap,
                                       RasterBits |-> img.RasterBits,
                                       ExtensionBlocks |-> rd.ExtensionBlocks ]),
                                 !.ExtensionBlocks = << >>,
                                 !.next_record = rd.next_record + 1 ] ]
             ELSE [ status |-> "more",
                    reader |-> [ rd EXCEPT
                        !.ExtensionBlocks = Append(rd.ExtensionBlocks, rec),
                        !.next_record = rd.next_record + 1 ] ]

\* A get_cluster that reads one image too few.
ClusterLacksImageOffByOne(rd, ci) == Len(rd.SavedImages) < ci

\* The loop condition of get_cluster: the image cluster_index is not read yet.
ClusterLacksImage(rd, ci) == Len(rd.SavedImages) < ci + 1

\* get_cluster: read records until the image cluster_index is there.
RECURSIVE GifCluster(_, _)
GifCluster(rd, ci) ==
    IF ClusterLacksImage(rd, ci)
    THEN LET r == ReadRecord(rd)
         IN  IF r.status = "more"
             THEN GifCluster(r.reader, ci)
             ELSE [ status |-> IF r.status = "panic" THEN "panic" ELSE "Err",
                    reader |-> r.reader ]
    ELSE [ status |-> "Ok", reader |-> rd ]

\* The sum of the delay times of the graphics control blocks among blocks.
RECURSIVE DelaySum(_)
DelaySum(blocks) ==
    IF blocks = << >>
    THEN 0
    ELSE (IF Head(blocks).function = "graphics" THEN Head(blocks).DelayTime ELSE 0)
         + DelaySum(Tail(blocks))

RECURSIVE ImagesDelay(_, _)
ImagesDelay(images, image_index) ==
    IF image_index = 0
    THEN 0
    ELSE ImagesDelay(images, image_index - 1) + DelaySum(images[image_index].ExtensionBlocks)

\* The ticks of one second of a GIF timestamp.
GifTicksPerSecond == 100

\* get_time
GetTime(rd, image_index) ==
    LET time_so_far == ImagesDelay(rd.SavedImages, image_index)
    IN  Timestamp(IF time_so_far = 0
                  THEN time_so_far + DelaySum(rd.ExtensionBlocks)
                  ELSE time_so_far,
                  GifTicksPerSecond)

\* The color map FrameImpl::len and FrameImpl::read use: the image's own, or
\* the screen's (None where file.color_map().unwrap() panics).
FrameColorMap(rd, image_index) ==
    IF IsSome(rd.SavedImages[image_index + 1].ColorMap)
    THEN rd.SavedImages[image_index + 1].ColorMap
    ELSE rd.SColorMap

\* FrameImpl::len
GifFrameLen(rd, image_index) ==
    2 + (Len(Unwrap(FrameColorMap(rd, image_index))) * 3)
      + Len(rd.SavedImages[image_index + 1].RasterBits)

\* write_u16::<LittleEndian>(n as u16)
U16LittleEndian(n) == << (n % 65536) % 256, (n % 65536) \div 256 >>

RECURSIVE ColorBytes(_)
ColorBytes(colors) ==
    IF colors = << >>
    THEN << >>
    ELSE << Head(colors).Red, Head(colors).Green, Head(colors).Blue >>
         \o ColorBytes(Tail(colors))

\* FrameImpl::read: the bytes written to the buffer.
GifFrameRead(rd, image_index) ==
    LET colors == Unwrap(FrameColorMap(rd, image_index))
    IN  U16LittleEndian(Len(colors)) \o ColorBytes(colors)
        \o rd.SavedImages[image_index + 1].RasterBits

\* ClusterImpl::read_frame and the FrameImpl it makes.
GifReadFrame(rd, ci, frame_index) ==
    IF frame_index = 0
    THEN Some([ track_number     |-> 0,
                time             |-> GetTime(rd, ci),
                rendering_offset |-> 0,
                ok               |-> TRUE,
                source           |-> << ci, 1 >> ])
    ELSE None

\* read_u16::<LittleEndian>
ReadU16LittleEndian(data) == data[1] + 256 * data[2]

\* VideoDecoderImpl::decode_frame of the GIF decoder: [status, palette, pixels].
GifDecodeFrame(data) ==
    IF Len(data) < 2
    THEN [ status |-> "Err", palette |-> << >>, pixels |-> << >> ]
    ELSE LET palette_size == ReadU16LittleEndian(data)
         IN  IF Len(data) < 2 + 3 * palette_size
             THEN [ status |-> "Err", palette |-> << >>, pixels |-> << >> ]
             ELSE [ status  |-> "Ok",
                    palette |-> [ k \in 1..palette_size |->
                                    [ r |-> data[2 + 3 * (k - 1) + 1],
                                      g |-> data[2 + 3 * (k - 1) + 2],
                                      b |-> data[2 + 3 * (k - 1) + 3] ] ],
                    pixels  |-> SubSeq(data, 2 + 3 * palette_size + 1, Len(data)) ]

----------------------------------------------------------------------------
(* The container behind the Player: reader.container is "gif" for the GIF  *)
(* reader and "blocks" for a container of clusters of blocks.              *)

\* Track::cluster
TrackCluster(rd, ci) ==
    IF rd.container = "gif" THEN GifCluster(rd, ci) ELSE BlocksCluster(rd, ci)

\* Cluster::read_frame
ClusterReadFrame(rd, ci, frame_index, track_number) ==
    IF rd.container = "gif"
    THEN GifReadFrame(rd, ci, frame_index)
    ELSE BlocksReadFrame(rd, ci, frame_index, track_number)

\* Whether Frame::len and Frame::read complete for the frame: in a GIF they
\* panic on an image that is not among the saved images, and on one that
\* has no color map while the screen has none either.
FrameReadable(rd, frame) ==
    rd.container = "gif" =>
        /\ frame.source[1] < Len(rd.SavedImages)
        /\ IsSome(FrameColorMap(rd, frame.source[1]))

\* VideoDecoder::decode_frame on the bytes Frame::read gave:
\* [status, palette, pixels].
VideoDecode(rd, frame) ==
    IF rd.container = "gif"
    THEN GifDecodeFrame(GifFrameRead(rd, frame.source[1]))
    ELSE [ status |-> IF frame.ok THEN "Ok" ELSE "Err", palette |-> << >>, pixels |-> << >> ]

----------------------------------------------------------------------------
(* src/playback.rs                                                         *)

\* The tolerance of "is the next frame", and the distance of the far future.
NextFrameTolerance == 5
FarFuture == 1000

Ticks(frame) == frame.presentation_time.ticks

\* A video loop that stops on any queued frame.
VideoLoopStopsOnAnyFrame(frames, delay, last) == frames # << >>

\* A video loop that stops only once two frames are queued.
VideoLoopStopsOnTwoFrames(frames, delay, last) == Len(frames) >= 2

\* The stop condition of the video loop of decode_frame.
VideoLoopStops(frames, delay, last) ==
    IF IsNone(delay)
    THEN frames # << >>
    ELSE \E k \in 1..Len(frames) :
            LET delta == Ticks(frames[k]) - (Unwrap(last).ticks + Unwrap(delay))
            IN  Abs(delta) < NextFrameTolerance \/ delta > FarFuture

\* A pruning that keeps every frame.
KeepsEveryFrame(last_frame_time, frame) == TRUE

\* A pruning that keeps the frames after the last frame's time only.
KeepsLaterFrame(last_frame_time, frame) == last_frame_time.ticks < Ticks(frame)

\* A pruning that keeps the frames up to 20 ticks before the last frame's time.
KeepsFrameWithSlack(last_frame_time, frame) == last_frame_time.ticks <= Ticks(frame) + 20

\* Whether the pruning of decode_frame keeps a queued frame.
KeepsFrame(last_frame_time, frame) == last_frame_time.ticks <= Ticks(frame)

\* "Throw out any video frames that are too late."
Prune(frames, last) ==
    IF IsNone(last)
    THEN frames
    ELSE LET Keep(frame) == KeepsFrame(Unwrap(last), frame)
         IN  SelectSeq(frames, Keep)

\* The index of the head of the queue; 0 for an empty queue.
HeadIndex(frames) == IF frames = << >> THEN 0 ELSE 1

\* frames.iter().enumerate().min_by(ticks): the index (from 1) of the first
\* frame of least presentation time; 0 for an empty queue.
MinIndex(frames) ==
    IF frames = << >>
    THEN 0
    ELSE CHOOSE i \in 1..Len(frames) :
            /\ \A k \in 1..Len(frames) : Ticks(frames[i]) <= Ticks(frames[k])
            /\ \A k \in 1..(i - 1) : Ticks(frames[k]) > Ticks(frames[i])

\* An advance() that leaves the time of the last frame as it was.
KeepLastTime(last, next) == last

\* A record of the current time that takes time zero where none is known.
RecordTimeZeroWhenUnknown(last, next) ==
    IF IsNone(next) THEN Some(Timestamp(0, TicksPerSecond)) ELSE next

\* "Record the current time": the last frame's time after advance().
RecordCurrentTime(last, next) == next

\* A decode_video_frame that queues a frame whatever the codec says.
DecodeVideoFrameAlways(rd, v, frame) ==
    Append(v.frames,
           [ presentation_time |-> TimestampAdd(frame.time, frame.rendering_offset),
             source  |-> frame.source,
             width   |-> v.width,
             height  |-> v.height,
             palette |-> << >>,
             pixels  |-> << >> ])

\* decode_video_frame: the queue after the frame went through the codec.
DecodeVideoFrame(rd, v, frame) ==
    LET image == VideoDecode(rd, frame)
    IN  IF image.status = "Ok"
        THEN Append(v.frames,
                    [ presentation_time |-> TimestampAdd(frame.time, frame.rendering_offset),
                      source  |-> frame.source,
                      width   |-> v.width,
                      height  |-> v.height,
                      palette |-> image.palette,
                      pixels  |-> image.pixels ])
        ELSE v.frames

\* decode_audio_frame: the accumulator after the frame went through the codec;
\* an audio frame decodes to one sample per channel, the frame's name.
DecodeAudioFrame(samples, frame) ==
    IF frame.ok
    THEN [ channel \in 1..Len(samples) |-> Append(samples[channel], frame.source) ]
    ELSE samples

\* Player::new: the first video track and the first audio track.
FirstTrack(rd, type) ==
    LET ks == { k \in 1..Len(rd.tracks) : rd.tracks[k].type = type }
    IN  IF ks = {} THEN None
        ELSE Some(rd.tracks[CHOOSE k \in ks : \A m \in ks : k <= m])

NewVideo(rd) ==
    IF IsNone(FirstTrack(rd, "video"))
    THEN None
    ELSE Some([ track_number |-> Unwrap(FirstTrack(rd, "video")).number,
                frames       |-> << >>,
                frame_index  |-> 0,
                width        |-> rd.width,
                height       |-> rd.height ])

NewAudio(rd) ==
    IF IsNone(FirstTrack(rd, "audio"))
    THEN None
    ELSE Some([ track_number |-> Unwrap(FirstTrack(rd, "audio")).number,
                channels     |-> Unwrap(FirstTrack(rd, "audio")).channels,
                samples      |-> None,
                frame_index  |-> 0 ])

PlayerNew(rd) ==
    /\ reader = rd
    /\ video = NewVideo(rd)
    /\ audio = NewAudio(rd)
    /\ cluster_index = 0
    /\ frame_delay = None
    /\ last_frame_presentation_time = None
    /\ next_frame_presentation_time = None
    /\ pc = "idle"
    /\ call = "new"
    /\ result = "Ok"
    /\ returned = None
    /\ shown = << >>
    /\ protocol = TRUE
    /\ paired = TRUE
    /\ heard = {}
    /\ input = << >>
    /\ output = << >>

\* What a call leaves behind when it returns res, and when it panics.
Returns(res) == pc' = "idle" /\ result' = res
Panics == pc' = "aborted" /\ result' = "panic"

\* The host calls decode_frame().
DecodeFrame ==
    /\ pc = "idle"
    /\ pc' = "clusterloop"
    /\ call' = "decode_frame"
    /\ result' = "pending"
    /\ paired' = (paired /\ call \in { "new", "advance" } /\ result = "Ok")
    /\ UNCHANGED << reader, video, audio, cluster_index, frame_delay,
                    last_frame_presentation_time, next_frame_presentation_time,
                    returned, shown, protocol, heard >>
    /\ UNCHANGED << input, output >>

\* The head of 'clusterloop: the cluster at cluster_index of the video
\* track, or of the audio track when there is no video.
ClusterLoop ==
    /\ pc = "clusterloop"
    /\ IF IsNone(video) /\ IsNone(audio)
       THEN Returns("Err") /\ reader' = reader
       ELSE LET cluster == TrackCluster(reader, cluster_index)
            IN  /\ reader' = cluster.reader
                /\ CASE cluster.status = "Ok" ->
                            /\ pc' = IF IsSome(video) THEN "videoloop" ELSE "audio"
                            /\ result' = result
                     [] cluster.status = "Err" -> Returns("Err")
                     [] OTHER -> Panics
    /\ UNCHANGED << video, audio, cluster_index, frame_delay,
                    last_frame_presentation_time, next_frame_presentation_time,
                    call, returned, shown, protocol, paired, heard >>
    /\ UNCHANGED << input, output >>

\* The video loop breaks: the next frame is the one of least presentation
\* time; then the audio, or Ok where there is no audio track.
VideoBreak ==
    /\ pc = "videoloop"
    /\ VideoLoopStops(Unwrap(video).frames, frame_delay, last_frame_presentation_time)
    /\ LET frames == Unwrap(video).frames
           index == MinIndex(frames)
       IN  IF index = 0
           THEN /\ pc' = "clusterloop"
                /\ UNCHANGED << next_frame_presentation_time, result >>
           ELSE /\ next_frame_presentation_time' = Some(frames[index].presentation_time)
                /\ IF IsSome(audio)
                   THEN pc' = "audio" /\ result' = result
                   ELSE Returns("Ok")
    /\ UNCHANGED << reader, video, audio, cluster_index, frame_delay,
                    last_frame_presentation_time,
                    call, returned, shown, protocol, paired, heard >>
    /\ UNCHANGED << input, output >>

\* One turn of the video loop with a frame to read: decode it, count it,
\* throw out the frames that are too late.
VideoReadFrame ==
    /\ pc = "videoloop"
    /\ ~VideoLoopStops(Unwrap(video).frames, frame_delay, last_frame_presentation_time)
    /\ LET v == Unwrap(video)
           frame == ClusterReadFrame(reader, cluster_index, v.frame_index, v.track_number)
       IN  /\ IsSome(frame)
           /\ IF FrameReadable(reader, Unwrap(frame))
              THEN /\ video' = Some([ v EXCEPT
                          !.frames = Prune(DecodeVideoFrame(reader, v, Unwrap(frame)),
                                           last_frame_presentation_time),
                          !.frame_index = v.frame_index + 1 ])
                   /\ UNCHANGED << pc, result >>
              ELSE Panics /\ video' = video
    /\ UNCHANGED << reader, audio, cluster_index, frame_delay,
                    last_frame_presentation_time, next_frame_presentation_time,
                    call, returned, shown, protocol, paired, heard >>
    /\ UNCHANGED << input, output >>

\* A turn with no frame left in the cluster that empties the queue.
VideoRolloverClearsQueue ==
    /\ pc = "videoloop"
    /\ ~VideoLoopStops(Unwrap(video).frames, frame_delay, last_frame_presentation_time)
    /\ LET v == Unwrap(video)
       IN  /\ IsNone(ClusterReadFrame(reader, cluster_index, v.frame_index, v.track_number))
           /\ video' = Some([ v EXCEPT !.frame_index = 0, !.frames = << >> ])
    /\ cluster_index' = cluster_index + 1
    /\ audio' = IF IsSome(audio)
                THEN Some([ Unwrap(audio) EXCEPT !.frame_index = 0 ])
                ELSE audio
    /\ pc' = "clusterloop"
    /\ UNCHANGED << reader, frame_delay,
                    last_frame_presentation_time, next_frame_presentation_time,
                    call, result, returned, shown, protocol, paired, heard >>
    /\ UNCHANGED << input, output >>

\* One turn of the video loop with no frame left in the cluster: on to the
\* next cluster, both frame indices back to 0.
VideoRollover ==
    /\ pc = "videoloop"
    /\ ~VideoLoopStops(Unwrap(video).frames, frame_delay, last_frame_presentation_time)
    /\ LET v == Unwrap(video)
       IN  /\ IsNone(ClusterReadFrame(reader, cluster_index, v.frame_index, v.track_number))
           /\ video' = Some([ v EXCEPT !.frame_index = 0 ])
    /\ cluster_index' = cluster_index + 1
    /\ audio' = IF IsSome(audio)
                THEN Some([ Unwrap(audio) EXCEPT !.frame_index = 0 ])
                ELSE audio
    /\ pc' = "clusterloop"
    /\ UNCHANGED << reader, frame_delay,
                    last_frame_presentation_time, next_frame_presentation_time,
                    call, result, returned, shown, protocol, paired, heard >>
    /\ UNCHANGED << input, output >>

\* The audio part begins: a fresh accumulator, one vector per channel.
AudioStart ==
    /\ pc = "audio"
    /\ audio' = Some([ Unwrap(audio) EXCEPT
            !.samples = Some([ channel \in 1..Unwrap(audio).channels |-> << >> ]) ])
    /\ pc' = "audioloop"
    /\ UNCHANGED << reader, video, cluster_index, frame_delay,
                    last_frame_presentation_time, next_frame_presentation_time,
                    call, result, returned, shown, protocol, paired, heard >>
    /\ UNCHANGED << input, output >>

\* One turn of the audio loop with a frame to read.
AudioReadFrame ==
    /\ pc = "audioloop"
    /\ LET a == Unwrap(audio)
           read == ClusterReadFrame(reader, cluster_index, a.frame_index, a.track_number)
       IN  /\ IsSome(read)
           /\ LET frame == Unwrap(read)
              IN  /\ audio' = Some([ a EXCEPT
                         !.samples = Some(DecodeAudioFrame(Unwrap(a.samples), frame)),
                         !.frame_index = a.frame_index + 1 ])
                  /\ heard' = IF frame.ok THEN heard \cup { frame.source } ELSE heard
                  /\ IF IsSome(video)
                     THEN /\ UNCHANGED next_frame_presentation_time
                          /\ IF DurationGe(Duration(frame.time),
                                           Duration(Unwrap(next_frame_presentation_time)))
                             THEN Returns("Ok")
                             ELSE UNCHANGED << pc, result >>
                     ELSE /\ next_frame_presentation_time' = Some(frame.time)
                          /\ Returns("Ok")
    /\ UNCHANGED << reader, video, cluster_index, frame_delay,
                    last_frame_presentation_time,
                    call, returned, shown, protocol, paired >>
    /\ UNCHANGED << input, output >>

\* The audio loop breaks because the cluster has no further audio frame.
AudioBreak ==
    /\ pc = "audioloop"
    /\ LET a == Unwrap(audio)
       IN  IsNone(ClusterReadFrame(reader, cluster_index, a.frame_index, a.track_number))
    /\ Returns("Ok")
    /\ UNCHANGED << reader, video, audio, cluster_index, frame_delay,
                    last_frame_presentation_time, next_frame_presentation_time,
                    call, returned, shown, protocol, paired, heard >>
    /\ UNCHANGED << input, output >>

\* An advance() that learns no frame delay.
AdvanceLearnsNothing ==
    /\ pc = "idle"
    /\ call' = "advance"
    /\ protocol' = (protocol /\ call = "decode_frame" /\ result = "Ok")
    /\ paired' = (paired /\ call = "decode_frame" /\ result = "Ok")
    /\ IF IsSome(last_frame_presentation_time) /\ IsNone(next_frame_presentation_time)
       THEN /\ Panics
            /\ UNCHANGED << video, audio, frame_delay, last_frame_presentation_time,
                            returned, shown >>
       ELSE /\ frame_delay' = frame_delay
            /\ last_frame_presentation_time' =
                   RecordCurrentTime(last_frame_presentation_time,
                                     next_frame_presentation_time)
            /\ LET index == IF IsSome(video) THEN MinIndex(Unwrap(video).frames) ELSE 0
               IN  CASE IsSome(video) /\ index = 0 ->
                            /\ Returns("Err")
                            /\ UNCHANGED << video, audio, returned, shown >>
                     [] ~(IsSome(video) /\ index = 0)
                          /\ IsSome(audio) /\ IsNone(Unwrap(audio).samples) ->
                            /\ Panics
                            /\ UNCHANGED << video, audio, returned, shown >>
                     [] OTHER ->
                            /\ Returns("Ok")
                            /\ video' = IF IsSome(video)
                                        THEN Some([ Unwrap(video) EXCEPT
                                                 !.frames = Remove(@, index) ])
                                        ELSE video
                            /\ audio' = IF IsSome(audio)
                                        THEN Some([ Unwrap(audio) EXCEPT !.samples = None ])
                                        ELSE audio
                            /\ returned' = Some(
                                   [ video_frame   |-> IF IsSome(video)
                                                       THEN Some(Unwrap(video).frames[index])
                                                       ELSE None,
                                     audio_samples |-> IF IsSome(audio)
                                                       THEN Unwrap(audio).samples
                                                       ELSE None ])
                            /\ shown' = IF IsSome(video)
                                        THEN Append(shown, Unwrap(video).frames[index])
                                        ELSE shown
    /\ UNCHANGED << reader, cluster_index, next_frame_presentation_time, heard >>
    /\ UNCHANGED << input, output >>

\* The host calls advance().
Advance ==
    /\ pc = "idle"
    /\ call' = "advance"
    /\ protocol' = (protocol /\ call = "decode_frame" /\ result = "Ok")
    /\ paired' = (paired /\ call = "decode_frame" /\ result = "Ok")
    /\ IF IsSome(last_frame_presentation_time) /\ IsNone(next_frame_presentation_time)
       THEN /\ Panics
            /\ UNCHANGED << video, audio, frame_delay, last_frame_presentation_time,
                            returned, shown >>
       ELSE /\ frame_delay' =
                   IF IsSome(last_frame_presentation_time)
                   THEN Some(Unwrap(next_frame_presentation_time).ticks
                                 - Unwrap(last_frame_presentation_time).ticks)
                   ELSE frame_delay
            /\ last_frame_presentation_time' =
                   RecordCurrentTime(last_frame_presentation_time,
                                     next_frame_presentation_time)
            /\ LET index == IF IsSome(video) THEN MinIndex(Unwrap(video).frames) ELSE 0
               IN  CASE IsSome(video) /\ index = 0 ->
                            /\ Returns("Err")
                            /\ UNCHANGED << video, audio, returned, shown >>
                     [] ~(IsSome(video) /\ index = 0)
                          /\ IsSome(audio) /\ IsNone(Unwrap(audio).samples) ->
                            /\ Panics
                            /\ UNCHANGED << video, audio, returned, shown >>
                     [] OTHER ->
                            /\ Returns("Ok")
                            /\ video' = IF IsSome(video)
                                        THEN Some([ Unwrap(video) EXCEPT
                                                 !.frames = Remove(@, index) ])
                                        ELSE video
                            /\ audio' = IF IsSome(audio)
                                        THEN Some([ Unwrap(audio) EXCEPT !.samples = None ])
                                        ELSE audio
                            /\ returned' = Some(
                                   [ video_frame   |-> IF IsSome(video)
                                                       THEN Some(Unwrap(video).frames[index])
                                                       ELSE None,
                                     audio_samples |-> IF IsSome(audio)
                                                       THEN Unwrap(audio).samples
                                                       ELSE None ])
                            /\ shown' = IF IsSome(video)
                                        THEN Append(shown, Unwrap(video).frames[index])
                                        ELSE shown
    /\ UNCHANGED << reader, cluster_index, next_frame_presentation_time, heard >>
    /\ UNCHANGED << input, output >>

----------------------------------------------------------------------------
(* The streams the Player is put on.                                       *)

\* A video block by its time, rendering offset and whether it decodes.
VideoTrack == [ type |-> "video", number |-> 1, channels |-> 0 ]
AudioTrack == [ type |-> "audio", number |-> 2, channels |-> 2 ]

VideoBlock(time, offset, ok) == Block(VideoTrack.number, time, offset, ok)
AudioBlock(time) == Block(AudioTrack.number, time, 0, TRUE)

\* The end of a cluster, in a list of blocks.
ClusterEnd == Block(0, 0, 0, TRUE)

\* The items of a video-only stream: I and P frames on time, B frames
\* shown before and after their place in the stream, a frame the decoder
\* rejects, and the end of a cluster.
VideoItems ==
    { VideoBlock(0, 0, TRUE), VideoBlock(40, 0, TRUE), VideoBlock(40, -20, TRUE),
      VideoBlock(80, 20, TRUE), VideoBlock(40, 0, FALSE), ClusterEnd }

\* The clusters of a list of items.
RECURSIVE SplitClusters(_, _)
SplitClusters(items, cluster) ==
    IF items = << >>
    THEN << cluster >>
    ELSE IF Head(items) = ClusterEnd
         THEN << cluster >> \o SplitClusters(Tail(items), << >>)
         ELSE SplitClusters(Tail(items), Append(cluster, Head(items)))

\* The k-th block of a muxed stream: a video frame every 40 ticks, followed
\* by the two audio frames of 20 ticks that go with it.
MuxBlock(k) ==
    LET group == (k - 1) \div 3
    IN  CASE (k - 1) % 3 = 0 -> VideoBlock(40 * group, 0, TRUE)
          [] (k - 1) % 3 = 1 -> AudioBlock(40 * group)
          [] OTHER           -> AudioBlock(40 * group + 20)

\* The first n blocks of the muxed stream, a new cluster starting after
\* block cut.
MuxClusters(n, cut) ==
    LET blocks == [ k \in 1..n |-> MuxBlock(k) ]
    IN  IF cut = 0 \/ cut >= n
        THEN << blocks >>
        ELSE << SubSeq(blocks, 1, cut), SubSeq(blocks, cut + 1, n) >>

IsAudioBlock(block) == block.track_number = AudioTrack.number

BlocksReader(tracks, clusters) ==
    [ container |-> "blocks", tracks |-> tracks, clusters |-> clusters,
      width |-> 0, height |-> 0 ]

VideoOnlyReaders ==
    { BlocksReader(<< VideoTrack >>, SplitClusters(items, << >>)) :
        items \in SeqsUpTo(VideoItems, MaxBlocks) }

MuxedReaders ==
    { BlocksReader(<< VideoTrack, AudioTrack >>, MuxClusters(n, cut)) :
        n \in 1..MaxMuxBlocks, cut \in 0..MaxMuxBlocks }

AudioOnlyReaders ==
    { BlocksReader(<< AudioTrack >>,
                   [ c \in 1..Len(rd.clusters) |-> SelectSeq(rd.clusters[c], IsAudioBlock) ]) :
        rd \in MuxedReaders }

Init == \E rd \in VideoOnlyReaders \cup MuxedReaders \cup AudioOnlyReaders : PlayerNew(rd)

Next ==
    \/ DecodeFrame
    \/ ClusterLoop
    \/ VideoBreak
    \/ VideoReadFrame
    \/ VideoRollover
    \/ AudioStart
    \/ AudioReadFrame
    \/ AudioBreak
    \/ Advance

Spec == Init /\ [][Next]_vars

\* The host of the example player: decode_frame() and advance() in turn,
\* each after the other returned Ok, and no call after an Err.  Every call
\* runs to its end and such a host makes its next call, so the steps of
\* the alternation are weakly fair.
NextAlternating == Next /\ paired'

FairSpec == Init /\ [][NextAlternating]_vars /\ WF_vars(NextAlternating)

\* Frames 5, 4 and 1000, 1001 ticks from the time that follows the frames
\* at 0 and 20, and the end of a cluster.
NearItems ==
    { VideoBlock(35, 0, TRUE), VideoBlock(36, 0, TRUE), VideoBlock(44, 0, TRUE),
      VideoBlock(45, 0, TRUE), VideoBlock(1040, 0, TRUE), VideoBlock(1041, 0, TRUE),
      ClusterEnd }

NearFrameReaders ==
    { BlocksReader(<< VideoTrack >>,
                   SplitClusters(<< VideoBlock(0, 0, TRUE), VideoBlock(20, 0, TRUE) >> \o items,
                                 << >>)) :
        items \in SeqsUpTo(NearItems, MaxNearBlocks) }

InitNearFrames == \E rd \in NearFrameReaders \cup MuxedReaders : PlayerNew(rd)

SpecNearFrames == InitNearFrames /\ [][Next]_vars

\* The first n blocks of the muxed stream in one cluster, the decoders
\* rejecting the blocks of bad; and the audio blocks of such a stream.
RejectingCluster(n, bad) == [ k \in 1..n |-> [ MuxBlock(k) EXCEPT !.ok = k \notin bad ] ]

RejectingReaders ==
    { BlocksReader(<< VideoTrack, AudioTrack >>, << RejectingCluster(n, bad) >>) :
        n \in 1..MaxRejectBlocks, bad \in SUBSET (1..MaxRejectBlocks) }
    \cup { BlocksReader(<< AudioTrack >>,
                        << SelectSeq(RejectingCluster(n, bad), IsAudioBlock) >>) :
             n \in 1..MaxRejectBlocks, bad \in SUBSET (1..MaxRejectBlocks) }

InitRejecting == \E rd \in RejectingReaders : PlayerNew(rd)

SpecRejecting == InitRejecting /\ [][Next]_vars

----------------------------------------------------------------------------
(* GIF streams, and the Player on them.                                    *)

Color(r, g, b) == [ Red |-> r, Green |-> g, Blue |-> b ]

\* The screen's color map, when it has one, and an image's own.
GlobalColorMap == << Color(0, 0, 0), Color(255, 255, 255) >>
LocalColorMap == << Color(255, 0, 0), Color(0, 255, 0), Color(0, 0, 255), Color(1, 2, 3) >>

\* A graphics control extension with its delay time, and a comment.
GraphicsRecord(delay) == [ type |-> "extension", function |-> "graphics", DelayTime |-> delay ]
CommentRecord == [ type |-> "extension", function |-> "comment", DelayTime |-> 0 ]

\* An image of width x height whose pixel at (row, column) is
\* (row + column) % 2, the rows in stream order.
ImageRecord(width, height, interlace, color_map) ==
    [ type |-> "image", Width |-> width, Height |-> height, Interlace |-> interlace,
      ColorMap |-> color_map,
      lines |-> [ r \in 1..height |-> [ c \in 1..width |-> (r + c) % 2 ] ] ]

GifRecords ==
    { GraphicsRecord(10), CommentRecord,
      ImageRecord(1, 2, FALSE, None),
      ImageRecord(1, 2, FALSE, Some(LocalColorMap)),
      ImageRecord(1, 2, TRUE, None) }

\* FileType::new and ContainerReaderImpl::new: the screen descriptor is read,
\* no record yet; one video track, number 0, of the screen's size.
GifReader(color_map, records) ==
    [ container |-> "gif",
      tracks |-> << [ type |-> "video", number |-> 0, channels |-> 0 ] >>,
      width |-> 2, height |-> 2,
      SWidth |-> 2, SHeight |-> 2, SColorMap |-> color_map,
      records |-> records, next_record |-> 1,
      SavedImages |-> << >>, ExtensionBlocks |-> << >> ]

GifReaders ==
    { GifReader(color_map, records) :
        color_map \in { None, Some(GlobalColorMap) },
        records \in SeqsUpTo(GifRecords, MaxGifRecords) }

InitGif == \E rd \in GifReaders : PlayerNew(rd)

NextGif ==
    \/ DecodeFrame
    \/ ClusterLoop
    \/ VideoBreak
    \/ VideoReadFrame
    \/ VideoRollover
    \/ Advance

SpecGif == InitGif /\ [][NextGif]_vars

\* DISPOSAL_UNSPECIFIED, DISPOSE_DO_NOT, DISPOSE_BACKGROUND and
\* DISPOSE_PREVIOUS of the graphics control block.
DISPOSAL_UNSPECIFIED == 0
DISPOSE_DO_NOT == 1
DISPOSE_BACKGROUND == 2
DISPOSE_PREVIOUS == 3

\* A graphics control extension with its delay time and its DisposalMode.
DisposingGraphicsRecord(delay, mode) ==
    [ type |-> "extension", function |-> "graphics", DelayTime |-> delay,
      DisposalMode |-> mode ]

\* GraphicsControlBlock::disposal_mode
DisposalModeOf(block) == block.DisposalMode

\* n images of width x height, each after its graphics control block.
RECURSIVE DisposingRecords(_, _, _)
DisposingRecords(modes, width, height) ==
    IF modes = << >> THEN << >>
    ELSE << DisposingGraphicsRecord(10, Head(modes)),
            ImageRecord(width, height, FALSE, None) >>
         \o DisposingRecords(Tail(modes), width, height)

\* Streams of images that cover the screen or its first column, with every
\* disposal.
DisposingGifReaders ==
    { GifReader(Some(GlobalColorMap), DisposingRecords(modes, width, 2)) :
        modes \in SeqsUpTo({ DISPOSAL_UNSPECIFIED, DISPOSE_DO_NOT, DISPOSE_BACKGROUND,
                             DISPOSE_PREVIOUS }, MaxDisposalImages),
        width \in { 1, 2 } }

InitGifDisposal == \E rd \in DisposingGifReaders : PlayerNew(rd)

SpecGifDisposal == InitGifDisposal /\ [][NextGif]_vars

----------------------------------------------------------------------------
(* FileType::read_image on an interlaced image, one line per step:         *)
(* reader.interlace is the state of the four passes.                       *)

InitInterlace ==
    /\ \E width \in 1..2, height \in 1..MaxImageHeight :
          reader = [ GifReader(Some(GlobalColorMap),
                               << ImageRecord(width, height, TRUE, None) >>)
                     EXCEPT !.SWidth = width, !.SHeight = height,
                            !.width = width, !.height = height ]
                   @@ [ interlace |-> InterlaceStart ]
    /\ video = NewVideo(reader)
    /\ audio = None
    /\ cluster_index = 0
    /\ frame_delay = None
    /\ last_frame_presentation_time = None
    /\ next_frame_presentation_time = None
    /\ pc = "read_image"
    /\ call = "decode_frame"
    /\ result = "pending"
    /\ returned = None
    /\ shown = << >>
    /\ protocol = TRUE
    /\ paired = TRUE
    /\ heard = {}
    /\ input = << >>
    /\ output = << >>

\* One line of the image is read into its row, or a pass ends.
ReadImageLine ==
    /\ pc = "read_image"
    /\ reader.interlace.status = "reading"
    /\ reader' = [ reader EXCEPT
           !.interlace = InterlaceStep(@, reader.records[1].Width, reader.records[1].Height) ]
    /\ UNCHANGED << video, audio, cluster_index, frame_delay,
                    last_frame_presentation_time, next_frame_presentation_time,
                    pc, call, result, returned, shown, protocol, paired, heard >>
    /\ UNCHANGED << input, output >>

SpecInterlace == InitInterlace /\ [][ReadImageLine]_vars

----------------------------------------------------------------------------
(* The registries: src/container.rs, src/videodecoder.rs and               *)
(* src/audiodecoder.rs.  A codec id is the sequence of its bytes.          *)

Ok(x) == [ status |-> "Ok", entry |-> x ]
Err == [ status |-> "Err" ]

MkvContainerReader ==
    [ name |-> "mkv", mime_types |-> << "video/webm", "video/x-matroska" >> ]
Mp4ContainerReader ==
    [ name |-> "mp4",
      mime_types |-> << "audio/mp4", "audio/quicktime", "video/mp4", "video/quicktime" >> ]
GifContainerReader ==
    [ name |-> "gif", mime_types |-> << "image/gif" >> ]

CONTAINER_READERS == << MkvContainerReader, Mp4ContainerReader, GifContainerReader >>

\* container_reader.mime_types.iter().any(|mime| mime == &mime_type)
MimeTypesAny(container_reader, mime_type) ==
    \E i \in 1..Len(container_reader.mime_types) :
        container_reader.mime_types[i] = mime_type

\* A lookup that falls back on the first entry of the table.
RECURSIVE ContainerReaderScanOrFirst(_, _)
ContainerReaderScanOrFirst(k, mime_type) ==
    IF k > Len(CONTAINER_READERS) THEN Ok(CONTAINER_READERS[1])
    ELSE IF MimeTypesAny(CONTAINER_READERS[k], mime_type) THEN Ok(CONTAINER_READERS[k])
    ELSE ContainerReaderScanOrFirst(k + 1, mime_type)

\* The loop of RegisteredContainerReader::get from entry k on.
RECURSIVE ContainerReaderScan(_, _)
ContainerReaderScan(k, mime_type) ==
    IF k > Len(CONTAINER_READERS) THEN Err
    ELSE IF MimeTypesAny(CONTAINER_READERS[k], mime_type) THEN Ok(CONTAINER_READERS[k])
    ELSE ContainerReaderScan(k + 1, mime_type)

RegisteredContainerReaderGet(mime_type) == ContainerReaderScan(1, mime_type)

VpxVideoDecoder == [ name |-> "vpx", id |-> << 86, 80, 56, 48 >> ]           \* VP80
GifVideoDecoder == [ name |-> "gif", id |-> << 71, 73, 70, 102 >> ]          \* GIFf
LibavcodecVideoDecoder == [ name |-> "libavcodec", id |-> << 97, 118, 99, 32 >> ]  \* "avc "
VorbisAudioDecoder == [ name |-> "vorbis", id |-> << 118, 111, 114, 98 >> ]  \* vorb
LibavcodecAudioDecoder == [ name |-> "libavcodec", id |-> << 97, 97, 99, 32 >> ]   \* "aac "
AudioUnitAudioDecoder == [ name |-> "audiounit", id |-> << 97, 97, 99, 32 >> ]     \* "aac "

\* The tables of the four builds (target_os = "macos", feature = "ffmpeg").
\* The macOS video tables name platform::macos::videotoolbox::VIDEO_DECODER,
\* which the sources do not define: the video table is that of the other
\* builds.
VIDEO_DECODERS(build) ==
    IF build.ffmpeg THEN << VpxVideoDecoder, GifVideoDecoder, LibavcodecVideoDecoder >>
    ELSE << VpxVideoDecoder, GifVideoDecoder >>

AUDIO_DECODERS(build) ==
    << VorbisAudioDecoder >>
    \o (IF build.ffmpeg THEN << LibavcodecAudioDecoder >> ELSE << >>)
    \o (IF build.macos THEN << AudioUnitAudioDecoder >> ELSE << >>)

\* decoder.id == codec_id, an array against a slice: the same length and
\* the same bytes.
IdEquals(id, codec_id) ==
    /\ Len(id) = Len(codec_id)
    /\ \A i \in 1..Len(id) : id[i] = codec_id[i]

\* The loop of RegisteredVideoDecoder::get and RegisteredAudioDecoder::get
\* from entry k on.
RECURSIVE DecoderScan(_, _, _)
DecoderScan(decoders, k, codec_id) ==
    IF k > Len(decoders) THEN Err
    ELSE IF IdEquals(decoders[k].id, codec_id) THEN Ok(decoders[k])
    ELSE DecoderScan(decoders, k + 1, codec_id)

RegisteredVideoDecoderGet(build, codec_id) == DecoderScan(VIDEO_DECODERS(build), 1, codec_id)
RegisteredAudioDecoderGet(build, codec_id) == DecoderScan(AUDIO_DECODERS(build), 1, codec_id)

\* The state of a program that has built no Player.
NoPlayer ==
    /\ reader = << >>
    /\ video = None
    /\ audio = None
    /\ cluster_index = 0
    /\ frame_delay = None
    /\ last_frame_presentation_time = None
    /\ next_frame_presentation_time = None
    /\ pc = "idle"
    /\ call = "none"
    /\ result = "none"
    /\ returned = None
    /\ shown = << >>
    /\ protocol = TRUE
    /\ paired = TRUE
    /\ heard = {}

PlayerVars == << reader, video, audio, cluster_index, frame_delay,
                 last_frame_presentation_time, next_frame_presentation_time,
                 pc, call, result, returned, shown, protocol, paired, heard >>

\* The MIME types asked for: the registered ones and strings near them.
MimeTypes ==
    { "image/gif", "video/webm", "video/x-matroska", "audio/mp4", "audio/quicktime",
      "video/mp4", "video/quicktime",
      "", "image/GIF", "image/gif ", "image/gif; q=1", "image/png", "gif", "image/",
      "video/WebM", "audio/webm", "video/matroska", "video/x-matroska-3d",
      "audio/mpeg", "video/ogg", "application/mp4", "video/mp4v", "*/*" }

\* The codec ids asked for: the registered ones, each with one byte changed,
\* one byte less and one byte more.
RegisteredIds ==
    { VpxVideoDecoder.id, GifVideoDecoder.id, LibavcodecVideoDecoder.id,
      VorbisAudioDecoder.id, LibavcodecAudioDecoder.id }

CodecIds ==
    RegisteredIds
    \cup { [ id EXCEPT ![i] = b ] : id \in RegisteredIds, i \in 1..4, b \in { 0, 32, 97 } }
    \cup { SubSeq(id, 1, 3) : id \in RegisteredIds }
    \cup { Append(id, 32) : id \in RegisteredIds }
    \cup { << >> }

InitRegistry ==
    /\ NoPlayer
    /\ \E macos \in BOOLEAN, ffmpeg \in BOOLEAN :
          input = [ build |-> [ macos |-> macos, ffmpeg |-> ffmpeg ],
                    fn |-> "none", arg |-> << >> ]
    /\ output = << >>

ContainerReaderGet ==
    /\ \E mime_type \in MimeTypes :
          /\ input' = [ input EXCEPT !.fn = "RegisteredContainerReader::get",
                                     !.arg = mime_type ]
          /\ output' = RegisteredContainerReaderGet(mime_type)
    /\ UNCHANGED PlayerVars

VideoDecoderGet ==
    /\ ~input.build.macos
    /\ \E codec_id \in CodecIds :
          /\ input' = [ input EXCEPT !.fn = "RegisteredVideoDecoder::get",
                                     !.arg = codec_id ]
          /\ output' = RegisteredVideoDecoderGet(input.build, codec_id)
    /\ UNCHANGED PlayerVars

AudioDecoderGet ==
    /\ \E codec_id \in CodecIds :
          /\ input' = [ input EXCEPT !.fn = "RegisteredAudioDecoder::get",
                                     !.arg = codec_id ]
          /\ output' = RegisteredAudioDecoderGet(input.build, codec_id)
    /\ UNCHANGED PlayerVars

NextRegistry ==
    \/ ContainerReaderGet
    \/ VideoDecoderGet
    \/ AudioDecoderGet

SpecRegistry == InitRegistry /\ [][NextRegistry]_vars

----------------------------------------------------------------------------
(* src/codecs/h264.rs: create_avcc_chunk.  A header is the sequence of its *)
(* bytes; headers.h264_seq_headers() and headers.h264_pict_headers() are   *)
(* Options of lists of headers.                                            *)

\* x as u8
AsU8(x) == x % 256

\* a | b on bytes.
RECURSIVE BitOr(_, _)
BitOr(a, b) ==
    IF a = 0 THEN b
    ELSE IF b = 0 THEN a
    ELSE 2 * BitOr(a \div 2, b \div 2) + (IF a % 2 = 1 \/ b % 2 = 1 THEN 1 ELSE 0)

\* Length bytes that are pushed low byte first.
LengthBytesLittleEndian(header) == << AsU8(Len(header)), AsU8(Len(header) \div 256) >>

\* The two length bytes pushed before a header: (len >> 8) as u8, len as u8.
LengthBytes(header) == << AsU8(Len(header) \div 256), AsU8(Len(header)) >>

\* for header in headers.iter() { push the length bytes; push the header }:
\* the bytes pushed for the headers from the k-th on.
RECURSIVE PushHeaders(_, _)
PushHeaders(headers, k) ==
    IF k > Len(headers) THEN << >>
    ELSE LengthBytes(headers[k]) \o headers[k] \o PushHeaders(headers, k + 1)

\* A head that leaves out the 0xff byte.
AvccHeadWithoutLengthSize(seq_headers) ==
    << 1, seq_headers[1][2], seq_headers[1][3], seq_headers[1][4],
       BitOr(AsU8(Len(seq_headers)), 224) >>

\* The six bytes pushed first.
AvccHead(seq_headers) ==
    << 1, seq_headers[1][2], seq_headers[1][3], seq_headers[1][4], 255,
       BitOr(AsU8(Len(seq_headers)), 224) >>

\* create_avcc_chunk: the chunk, or a panic when an Option is None (unwrap)
\* or seq_headers[0][1..3] is out of bounds.
CreateAvccChunk(headers) ==
    IF IsNone(headers.h264_seq_headers) \/ IsNone(headers.h264_pict_headers)
    THEN [ status |-> "panic" ]
    ELSE LET seq_headers == Unwrap(headers.h264_seq_headers)
             pict_headers == Unwrap(headers.h264_pict_headers)
         IN  IF Len(seq_headers) = 0 \/ Len(seq_headers[1]) < 4
             THEN [ status |-> "panic" ]
             ELSE [ status |-> "Ok",
                    avcc |-> AvccHead(seq_headers)
                             \o PushHeaders(seq_headers, 1)
                             \o << AsU8(Len(pict_headers)) >>
                             \o PushHeaders(pict_headers, 1) ]

\* The headers given: every list of at most MaxHeaders headers of a few
\* kinds, and lists of up to MaxRepeat equal headers.
SeqHeaderKinds ==
    { << 103, 66, 0, 30 >>, << 103, 66, 0, 30, 171 >>, << 103, 100, 0, 40, 172, 217 >>,
      << 103, 66, 0 >>, << >> }

PictHeaderKinds == { << 104, 206 >>, << 104, 238, 60, 128 >>, << 104 >>, << >> }

Repeat(header, n) == [ i \in 1..n |-> header ]

SeqHeaderLists ==
    SeqsUpTo(SeqHeaderKinds, MaxHeaders)
    \cup { Repeat(<< 103, 66, 0, 30 >>, n) : n \in (MaxRepeat - 3)..MaxRepeat }

PictHeaderLists ==
    SeqsUpTo(PictHeaderKinds, MaxHeaders)
    \cup { Repeat(<< 104 >>, n) : n \in (MaxRepeat - 1)..MaxRepeat }

InitAvcc ==
    /\ NoPlayer
    /\ \E seq_headers \in { None } \cup { Some(l) : l \in SeqHeaderLists },
          pict_headers \in { None } \cup { Some(l) : l \in PictHeaderLists } :
          input = [ h264_seq_headers |-> seq_headers, h264_pict_headers |-> pict_headers ]
    /\ output = << >>

CreateAvcc ==
    /\ output = << >>
    /\ output' = CreateAvccChunk(input)
    /\ UNCHANGED input
    /\ UNCHANGED PlayerVars

SpecAvcc == InitAvcc /\ [][CreateAvcc]_vars

----------------------------------------------------------------------------
(* Cluster::read_frame called on its own: input is the container, the      *)
(* cluster and the frame_index and track_number asked for.                 *)

\* Every cluster of at most MaxBlocks blocks of three tracks, the k-th
\* block at time 10 * k.
BlockClusters ==
    { [ k \in 1..Len(tracks) |-> Block(tracks[k], 10 * k, 0, TRUE) ] :
        tracks \in SeqsUpTo(1..3, MaxBlocks) }

ReadFrameReaders ==
    { BlocksReader(<< VideoTrack, AudioTrack >>, << cluster >>) : cluster \in BlockClusters }
    \cup { GifReader(Some(GlobalColorMap), records) :
             records \in SeqsUpTo({ GraphicsRecord(10), ImageRecord(1, 2, FALSE, None),
                                    ImageRecord(1, 2, FALSE, Some(LocalColorMap)) }, 2) }

InitReadFrame ==
    /\ NoPlayer
    /\ \E rd \in ReadFrameReaders, ci \in 0..1, frame_index \in 0..MaxBlocks,
          track_number \in 0..3 :
          /\ rd.container = "blocks" => ci = 0
          /\ rd.container = "gif" => frame_index <= 1 /\ track_number <= 1
          /\ input = [ reader |-> rd, cluster_index |-> ci,
                       frame_index |-> frame_index, track_number |-> track_number ]
    /\ output = << >>

\* track.cluster(cluster_index), and read_frame(frame_index, track_number)
\* on the cluster when there is one.
ReadFrame ==
    /\ output = << >>
    /\ LET cluster == TrackCluster(input.reader, input.cluster_index)
       IN  output' = IF cluster.status = "Ok"
                     THEN [ status |-> "read",
                            frame  |-> ClusterReadFrame(cluster.reader, input.cluster_index,
                                                        input.frame_index, input.track_number) ]
                     ELSE [ status |-> "no cluster", frame |-> None ]
    /\ UNCHANGED input
    /\ UNCHANGED PlayerVars

SpecReadFrame == InitReadFrame /\ [][ReadFrame]_vars

----------------------------------------------------------------------------
(* The LZW decoder of a GIF image, of which the sources hold the           *)
(* declaration and the calls of DGifGetLine (src/containers/gif.rs): the   *)
(* decoder is the one spec.md describes under "LZW decoder".  The stream   *)
(* is the sequence of its codes, each read with the running_bits of the    *)
(* moment; the shift register that cuts the sub-blocks into codes is left  *)
(* out.  prefix and suffix hold the entries that were stored: a code       *)
(* outside DOMAIN prefix has the prefix NO_SUCH_CODE.                      *)

LZ_MAX_CODE == 4095
LZ_BITS == 12
NO_SUCH_CODE == 4098

Pow2(n) == 2 ^ n

\* The state the decoder starts an image with: bits_per_pixel is the
\* min-code-size.
LzwInit(bits_per_pixel) ==
    [ bits_per_pixel |-> bits_per_pixel,
      clear_code     |-> Pow2(bits_per_pixel),
      eof_code       |-> Pow2(bits_per_pixel) + 1,
      running_code   |-> Pow2(bits_per_pixel) + 2,
      running_bits   |-> bits_per_pixel + 1,
      max_code_1     |-> Pow2(bits_per_pixel + 1),
      last_code      |-> NO_SUCH_CODE,
      stack          |-> << >>,
      prefix         |-> << >>,
      suffix         |-> << >>,
      line           |-> << >>,
      pos            |-> 1,
      status         |-> "ok" ]

Prefix(st, code) == IF code \in DOMAIN st.prefix THEN st.prefix[code] ELSE NO_SUCH_CODE
Suffix(st, code) == IF code \in DOMAIN st.suffix THEN st.suffix[code] ELSE 0

\* A reset that keeps running_code.
LzwResetKeepsRunningCode(st) ==
    [ st EXCEPT !.prefix = << >>,
                !.running_bits = st.bits_per_pixel + 1,
                !.max_code_1 = Pow2(st.bits_per_pixel + 1),
                !.last_code = NO_SUCH_CODE ]

\* Step 2 on the clear code: reset the dictionary.
LzwReset(st) ==
    [ st EXCEPT !.prefix = << >>,
                !.running_code = st.clear_code + 2,
                !.running_bits = st.bits_per_pixel + 1,
                !.max_code_1 = Pow2(st.bits_per_pixel + 1),
                !.last_code = NO_SUCH_CODE ]

\* get_prefix_char: follow the prefixes of code down to a literal, for at
\* most LZ_MAX_CODE entries; i counts them.
RECURSIVE GetPrefixChar(_, _, _)
GetPrefixChar(st, code, i) ==
    IF code > st.clear_code /\ i <= LZ_MAX_CODE
    THEN IF code > LZ_MAX_CODE THEN NO_SUCH_CODE
         ELSE GetPrefixChar(st, Prefix(st, code), i + 1)
    ELSE code

\* Step 3 on a code that is no literal: walk the prefixes of code while
\* code > clear_code and code <= 4095, pushing suffix[code].
RECURSIVE WalkPrefixes(_, _, _)
WalkPrefixes(st, code, stack) ==
    IF code > st.clear_code /\ code <= LZ_MAX_CODE /\ Len(stack) < LZ_MAX_CODE
    THEN WalkPrefixes(st, Prefix(st, code), Append(stack, Suffix(st, code)))
    ELSE [ code |-> code, stack |-> stack ]

\* Step 3: a literal is emitted; another code pushes its string on the
\* stack, the string of last_code and its first character for the code
\* running_code - 2, which is being defined.
LzwEmit(st, code) ==
    IF code < st.clear_code
    THEN [ st EXCEPT !.line = Append(@, code) ]
    ELSE LET kwkwk == code = st.running_code - 2
             first == IF kwkwk THEN << GetPrefixChar(st, st.last_code, 0) >> ELSE << >>
             walk  == WalkPrefixes(st, IF kwkwk THEN st.last_code ELSE code, st.stack \o first)
         IN  IF walk.code > LZ_MAX_CODE \/ Len(walk.stack) >= LZ_MAX_CODE
             THEN [ st EXCEPT !.status = "defect" ]
             ELSE [ st EXCEPT !.stack = Append(walk.stack, walk.code) ]

\* Step 4: when last_code is known, the entry running_code - 2 is stored.
LzwStore(st, code) ==
    IF st.status # "ok" \/ st.last_code = NO_SUCH_CODE THEN st
    ELSE IF st.running_code - 2 > LZ_MAX_CODE THEN [ st EXCEPT !.status = "overflow" ]
    ELSE LET char == IF code = st.running_code - 2
                     THEN GetPrefixChar(st, st.last_code, 0)
                     ELSE GetPrefixChar(st, code, 0)
         IN  [ st EXCEPT
                 !.prefix = ((st.running_code - 2) :> st.last_code) @@ st.prefix,
                 !.suffix = ((st.running_code - 2) :> char) @@ st.suffix ]

\* Step 5: last_code is the code; running_code advances, and running_bits
\* with it up to LZ_BITS.
LzwAdvance(st, code) ==
    IF st.status # "ok" THEN st
    ELSE LET grow == st.running_code + 1 > st.max_code_1 /\ st.running_bits < LZ_BITS
         IN  [ st EXCEPT !.last_code = code,
                         !.running_code = st.running_code + 1,
                         !.max_code_1 = IF grow THEN 2 * st.max_code_1 ELSE st.max_code_1,
                         !.running_bits = IF grow THEN st.running_bits + 1
                                          ELSE st.running_bits ]

\* Steps 2 to 5 on the code read.
LzwCode(st, code) ==
    IF code = st.eof_code THEN [ st EXCEPT !.status = "eof" ]
    ELSE IF code = st.clear_code THEN LzwReset(st)
    ELSE LzwAdvance(LzwStore(LzwEmit(st, code), code), code)

\* Step 1: pop the stack into the line while pixels are needed.
RECURSIVE LzwDrain(_, _)
LzwDrain(st, LineLen) ==
    IF st.stack # << >> /\ Len(st.line) < LineLen
    THEN LzwDrain([ st EXCEPT !.line = Append(@, st.stack[Len(st.stack)]),
                              !.stack = SubSeq(@, 1, Len(@) - 1) ], LineLen)
    ELSE st

\* The next running_bits bits of the stream.
NextCode(st, codes) == codes[st.pos] % Pow2(st.running_bits)

\* A line of LineLen pixels: steps 1 to 5 until the line is full; a failed
\* step ends the decoding, and so does the stream ending before the line.
RECURSIVE LzwGetLine(_, _, _)
LzwGetLine(st, codes, LineLen) ==
    LET drained == IF st.status = "ok" THEN LzwDrain(st, LineLen) ELSE st
    IN  IF drained.status # "ok" \/ Len(drained.line) >= LineLen THEN drained
        ELSE IF drained.pos > Len(codes) THEN [ drained EXCEPT !.status = "no data" ]
        ELSE LzwGetLine(LzwCode([ drained EXCEPT !.pos = @ + 1 ], NextCode(drained, codes)),
                        codes, LineLen)

\* The codes of the streams of an image of min-code-size 2: two literals
\* and the first code of the dictionary that a stream can use.
LzwAlphabet == { 0, 1, 6 }

RECURSIVE LzwSegments(_)
LzwSegments(n) ==
    IF n = 0 THEN { << >> }
    ELSE LET shorter == LzwSegments(n - 1)
         IN  shorter \cup { Append(s, c) : s \in { t \in shorter : Len(t) = n - 1 },
                                          c \in LzwAlphabet }

\* The images: a clear code, a segment, a clear code and a segment, in an
\* image of one column or of three, and MaxLongCodes equal literals at
\* min-code-size 8.
LzwImages ==
    { [ min_code_size |-> 2, codes |-> << 4 >> \o s1 \o << 4 >> \o s2,
        width |-> shape[1], height |-> shape[2] ] :
          s1 \in LzwSegments(MaxSegmentCodes),
          s2 \in LzwSegments(MaxSegmentCodes + 1),
          shape \in { << 1, 8 >>, << 3, 4 >> } }
    \cup { [ min_code_size |-> 8, codes |-> [ i \in 1 .. MaxLongCodes |-> 0 ],
             width |-> 32, height |-> MaxLongCodes \div 32 ] }

\* The decoder after the image descriptor was read, before the first line.
InitLzw ==
    /\ NoPlayer
    /\ input \in LzwImages
    /\ output = [ lzw |-> LzwInit(input.min_code_size), pixels |-> << >>, lines |-> 0 ]

\* DGifGetLine for one line of the image.
DGifGetLine ==
    /\ output.lzw.status = "ok"
    /\ output.lines < input.height
    /\ LET st == LzwGetLine([ output.lzw EXCEPT !.line = << >> ], input.codes, input.width)
       IN  output' = [ lzw |-> st, pixels |-> output.pixels \o st.line,
                       lines |-> output.lines + 1 ]
    /\ UNCHANGED << input, PlayerVars >>

SpecLzw == InitLzw /\ [][DGifGetLine]_vars

----------------------------------------------------------------------------
(* Player::new and read_track_metadata_and_initialize_codecs on the tracks *)
(* of a container: a track is [type, number, codec, width, height,         *)
(* sampling_rate, channels], its headers being named by its number.        *)

\* RegisteredVideoDecoder::new and RegisteredAudioDecoder::new: the decoder
\* built from an entry of the registry for a track.
NewVideoDecoder(entry, track) ==
    [ decoder |-> entry.name, headers |-> track.number,
      width |-> track.width, height |-> track.height ]

NewAudioDecoder(entry, track) ==
    [ decoder |-> entry.name, headers |-> track.number,
      sample_rate |-> track.sampling_rate, channels |-> track.channels ]

\* The loop of read_track_metadata_and_initialize_codecs from track_index
\* (from 1) on: [status, video_codec, audio_codec].
RECURSIVE InitializeCodecs(_, _, _, _, _)
InitializeCodecs(build, tracks, track_index, video_codec, audio_codec) ==
    IF track_index > Len(tracks)
    THEN [ status |-> "Ok", video_codec |-> video_codec, audio_codec |-> audio_codec ]
    ELSE LET track == tracks[track_index]
         IN  IF track.type = "video" /\ IsSome(track.codec)
             THEN LET got == RegisteredVideoDecoderGet(build, Unwrap(track.codec))
                  IN  IF got.status = "Err" THEN [ status |-> "panic" ]
                      ELSE InitializeCodecs(build, tracks, track_index + 1,
                                            Some(NewVideoDecoder(got.entry, track)),
                                            audio_codec)
             ELSE IF track.type = "audio" /\ IsSome(track.codec)
             THEN LET got == RegisteredAudioDecoderGet(build, Unwrap(track.codec))
                  IN  IF got.status = "Err" THEN [ status |-> "panic" ]
                      ELSE InitializeCodecs(build, tracks, track_index + 1,
                                            video_codec,
                                            Some(NewAudioDecoder(got.entry, track)))
             ELSE InitializeCodecs(build, tracks, track_index + 1, video_codec, audio_codec)

ReadTrackMetadataAndInitializeCodecs(build, tracks) ==
    InitializeCodecs(build, tracks, 1, None, None)

\* Player::new: the first video track and the first audio track, each with
\* the codec read_track_metadata_and_initialize_codecs gave.
PlayerNewInfo(build, tracks) ==
    LET codecs == ReadTrackMetadataAndInitializeCodecs(build, tracks)
        video_track == FirstTrack([ tracks |-> tracks ], "video")
        audio_track == FirstTrack([ tracks |-> tracks ], "audio")
    IN  IF codecs.status = "panic" THEN [ status |-> "panic" ]
        ELSE IF IsSome(video_track) /\ IsNone(codecs.video_codec) THEN [ status |-> "panic" ]
        ELSE IF IsSome(audio_track) /\ IsNone(codecs.audio_codec) THEN [ status |-> "panic" ]
        ELSE [ status |-> "Ok",
               video |-> IF IsSome(video_track)
                         THEN Some([ codec |-> Unwrap(codecs.video_codec),
                                     track_number |-> Unwrap(video_track).number ])
                         ELSE None,
               audio |-> IF IsSome(audio_track)
                         THEN Some([ codec |-> Unwrap(codecs.audio_codec),
                                     track_number |-> Unwrap(audio_track).number ])
                         ELSE None ]

\* The tracks a container may have: VP8 and H.264 video of two sizes,
\* Vorbis and AAC audio, a video track without codec and a subtitle track.
TrackKinds ==
    { [ type |-> "video", codec |-> Some(VpxVideoDecoder.id), width |-> 2, height |-> 2,
        sampling_rate |-> 0, channels |-> 0 ],
      [ type |-> "video", codec |-> Some(LibavcodecVideoDecoder.id), width |-> 4, height |-> 4,
        sampling_rate |-> 0, channels |-> 0 ],
      [ type |-> "video", codec |-> None, width |-> 2, height |-> 2,
        sampling_rate |-> 0, channels |-> 0 ],
      [ type |-> "audio", codec |-> Some(VorbisAudioDecoder.id), width |-> 0, height |-> 0,
        sampling_rate |-> 44100, channels |-> 2 ],
      [ type |-> "audio", codec |-> Some(LibavcodecAudioDecoder.id), width |-> 0, height |-> 0,
        sampling_rate |-> 48000, channels |-> 1 ],
      [ type |-> "subtitle", codec |-> None, width |-> 0, height |-> 0,
        sampling_rate |-> 0, channels |-> 0 ] }

\* The tracks numbered in index order, from 1.
NumberedTracks(kinds) ==
    [ k \in 1..Len(kinds) |->
        [ type |-> kinds[k].type, number |-> k, codec |-> kinds[k].codec,
          width |-> kinds[k].width, height |-> kinds[k].height,
          sampling_rate |-> kinds[k].sampling_rate, channels |-> kinds[k].channels ] ]

\* A build with ffmpeg, not on macOS: every codec of the tracks is registered.
InitPlayerNew ==
    /\ NoPlayer
    /\ \E kinds \in SeqsUpTo(TrackKinds, MaxTracks) :
          input = [ build |-> [ macos |-> FALSE, ffmpeg |-> TRUE ],
                    tracks |-> NumberedTracks(kinds) ]
    /\ output = << >>

\* Player::new on the container.
NewPlayer ==
    /\ output = << >>
    /\ output' = PlayerNewInfo(input.build, input.tracks)
    /\ UNCHANGED << input, PlayerVars >>

SpecPlayerNew == InitPlayerNew /\ [][NewPlayer]_vars

----------------------------------------------------------------------------
(* The track views of the container adapters: a view is [adapter, view,    *)
(* handle_type, webm_type, segment, file], view naming the struct          *)
(* (TrackImpl, VideoTrackImpl, AudioTrackImpl), handle_type the track type *)
(* MP4GetTrackType reports, webm_type the one WebmTrackGetType reports,    *)
(* segment the MKV segment and file the GIF file cluster() looks up in.    *)

MP4_AUDIO_TRACK_TYPE == "soun"
MP4_VIDEO_TRACK_TYPE == "vide"
MP4_HINT_TRACK_TYPE == "hint"

VIDEO_TRACK_TYPE == 1
AUDIO_TRACK_TYPE == 2
SUBTITLE_TRACK_TYPE == 17

\* track_type() of the views of src/containers/mp4.rs: the variant it yields.
Mp4TrackType(view) ==
    IF view.view = "VideoTrackImpl" THEN "Video"
    ELSE IF view.view = "AudioTrackImpl" THEN "Audio"
    ELSE IF view.handle_type = MP4_VIDEO_TRACK_TYPE THEN "Video"
    ELSE IF view.handle_type = MP4_AUDIO_TRACK_TYPE THEN "Audio"
    ELSE "Other"

Mp4IsVideo(view) ==
    IF view.view = "VideoTrackImpl" THEN TRUE
    ELSE IF view.view = "AudioTrackImpl" THEN FALSE
    ELSE view.handle_type = MP4_VIDEO_TRACK_TYPE

Mp4IsAudio(view) ==
    IF view.view = "VideoTrackImpl" THEN FALSE
    ELSE IF view.view = "AudioTrackImpl" THEN FALSE
    ELSE view.handle_type = MP4_AUDIO_TRACK_TYPE

\* track_type() of the views of src/containers/mkv.rs.
MkvTrackType(view) ==
    IF view.view = "VideoTrackImpl" THEN "Video"
    ELSE IF view.view = "AudioTrackImpl" THEN "Audio"
    ELSE IF view.webm_type = VIDEO_TRACK_TYPE THEN "Video"
    ELSE IF view.webm_type = AUDIO_TRACK_TYPE THEN "Audio"
    ELSE "Other"

MkvIsVideo(view) ==
    IF view.view = "VideoTrackImpl" THEN TRUE
    ELSE IF view.view = "AudioTrackImpl" THEN FALSE
    ELSE view.webm_type = VIDEO_TRACK_TYPE

MkvIsAudio(view) ==
    IF view.view = "VideoTrackImpl" THEN FALSE
    ELSE IF view.view = "AudioTrackImpl" THEN TRUE
    ELSE view.webm_type = AUDIO_TRACK_TYPE

\* The views of src/containers/gif.rs: both are of the one video track.
GifTrackType(view) == "Video"

GifIsVideo(view) == TRUE

GifIsAudio(view) == FALSE

ViewTrackType(view) ==
    IF view.adapter = "mp4" THEN Mp4TrackType(view)
    ELSE IF view.adapter = "mkv" THEN MkvTrackType(view)
    ELSE GifTrackType(view)

ViewIsVideo(view) ==
    IF view.adapter = "mp4" THEN Mp4IsVideo(view)
    ELSE IF view.adapter = "mkv" THEN MkvIsVideo(view)
    ELSE GifIsVideo(view)

ViewIsAudio(view) ==
    IF view.adapter = "mp4" THEN Mp4IsAudio(view)
    ELSE IF view.adapter = "mkv" THEN MkvIsAudio(view)
    ELSE GifIsAudio(view)

\* cluster() of the views of src/containers/mp4.rs: the generic and the
\* audio view assert that cluster_index is 0, the video view returns Err.
Mp4Cluster(view, ci) ==
    IF view.view = "VideoTrackImpl"
    THEN IF ci # 0 THEN "Err" ELSE "Ok"
    ELSE IF ci = 0 THEN "Ok" ELSE "panic"

\* get_cluster of src/containers/mkv.rs on a segment [count, past_end]:
\* segment.first() and cluster_index times segment.next(), each unwrapped.
\* Past the clusters the native call gives null (None, the unwrap panics)
\* or a cluster that stands for the end (Some); past_end is which.
MkvGetCluster(segment, ci) ==
    IF ci < segment.count THEN "Ok" ELSE segment.past_end

\* cluster() of the views of src/containers/mkv.rs: Ok(get_cluster(..)).
MkvCluster(view, ci) == MkvGetCluster(view.segment, ci)

\* cluster() of a view, of any adapter: "Ok", "Err" or "panic".
ViewCluster(view, ci) ==
    IF view.adapter = "mp4" THEN Mp4Cluster(view, ci)
    ELSE IF view.adapter = "mkv" THEN MkvCluster(view, ci)
    ELSE GifCluster(view.file, ci).status

\* The views a reader hands out: track_by_index and track_by_number give
\* the generic view of a track of any native type, track_type() of it the
\* video or the audio view of a video or an audio track.
NoSegment == [ count |-> 0, past_end |-> "Ok" ]

NoFile == GifReader(None, << >>)

Mp4Views ==
    { [ adapter |-> "mp4", view |-> v[1], handle_type |-> v[2], webm_type |-> 0,
        segment |-> NoSegment, file |-> NoFile ] :
        v \in { << "TrackImpl", MP4_VIDEO_TRACK_TYPE >>,
                << "TrackImpl", MP4_AUDIO_TRACK_TYPE >>,
                << "TrackImpl", MP4_HINT_TRACK_TYPE >>,
                << "VideoTrackImpl", MP4_VIDEO_TRACK_TYPE >>,
                << "AudioTrackImpl", MP4_AUDIO_TRACK_TYPE >> } }

MkvViews ==
    { [ adapter |-> "mkv", view |-> v[1], handle_type |-> "", webm_type |-> v[2],
        segment |-> [ count |-> count, past_end |-> past_end ], file |-> NoFile ] :
        v \in { << "TrackImpl", VIDEO_TRACK_TYPE >>,
                << "TrackImpl", AUDIO_TRACK_TYPE >>,
                << "TrackImpl", SUBTITLE_TRACK_TYPE >>,
                << "VideoTrackImpl", VIDEO_TRACK_TYPE >>,
                << "AudioTrackImpl", AUDIO_TRACK_TYPE >> },
        count \in 0..MaxViewClusters,
        past_end \in { "Ok", "panic" } }

GifViews ==
    { [ adapter |-> "gif", view |-> v, handle_type |-> "", webm_type |-> 0,
        segment |-> NoSegment, file |-> GifReader(Some(GlobalColorMap), records) ] :
        v \in { "TrackImpl", "VideoTrackImpl" },
        records \in SeqsUpTo(GifRecords, MaxViewClusters) }

TrackViews == Mp4Views \cup MkvViews \cup GifViews

InitTrackViews ==
    /\ NoPlayer
    /\ \E view \in TrackViews, ci \in 0..MaxClusterIndex :
          input = [ view |-> view, cluster_index |-> ci ]
    /\ output = << >>

\* is_video(), is_audio() and track_type() of the view.
ClassifyTrack ==
    /\ output = << >>
    /\ output' = [ op |-> "classify",
                   is_video |-> ViewIsVideo(input.view),
                   is_audio |-> ViewIsAudio(input.view),
                   track_type |-> ViewTrackType(input.view) ]
    /\ UNCHANGED << input, PlayerVars >>

\* cluster(cluster_index) of the view.
ClusterOfTrack ==
    /\ output = << >>
    /\ output' = [ op |-> "cluster",
                   status |-> ViewCluster(input.view, input.cluster_index) ]
    /\ UNCHANGED << input, PlayerVars >>

NextTrackViews == ClassifyTrack \/ ClusterOfTrack

SpecTrackViews == InitTrackViews /\ [][NextTrackViews]_vars

----------------------------------------------------------------------------
(* Properties of the Player.                                               *)

NonDecreasing(frames) ==
    \A i \in 1..Len(frames) : \A j \in i..Len(frames) : Ticks(frames[i]) <= Ticks(frames[j])

\* C1, as stated: whatever the order of the decode_frame() and advance()
\* calls, the presentation ticks of the video frames the successful
\* advance() calls returned never decrease.
C1_AnyInterleaving == IsSome(video) => NonDecreasing(shown)

\* C1, amended: when every advance() call directly follows a decode_frame()
\* call that returned Ok, the presentation ticks of the video frames the
\* successful advance() calls returned never decrease.
C1_AdvanceAfterDecodeFrame == (IsSome(video) /\ protocol) => NonDecreasing(shown)

\* Such a host was handed three frames, the last of them overtaking a frame
\* that was decoded before it and still waits in the queue.
C1_Witness ==
    /\ protocol
    /\ IsSome(video)
    /\ Len(shown) = 3
    /\ \E k \in 1..Len(Unwrap(video).frames) :
          /\ Unwrap(video).frames[k].source[1] = shown[3].source[1]
          /\ Unwrap(video).frames[k].source[2] < shown[3].source[2]

\* C2: when an advance() call returns, last_frame_presentation_time is what
\* next_frame_presentation_time was just before the call.
C2_LastIsPreviousNext ==
    [][(Advance /\ pc' = "idle")
          => last_frame_presentation_time' = next_frame_presentation_time]_vars

\* An advance() returned Ok and moved the last frame's time forward.
C2_Witness ==
    /\ call = "advance"
    /\ result = "Ok"
    /\ IsSome(frame_delay)
    /\ Unwrap(frame_delay) > 0
    /\ last_frame_presentation_time = next_frame_presentation_time

\* C3: the host that calls decode_frame() and advance() in turn on a stream
\* of finitely many clusters and frames eventually has a decode_frame()
\* call return Err, whatever tracks the player has.
C3_EventuallyErr == <>(call = "decode_frame" /\ pc = "idle" /\ result = "Err")

\* Frames in decode order with times 0, 40, 80 and rendering offsets
\* 0, -20, +20, in one cluster.
BFrameClusters ==
    << << VideoBlock(0, 0, TRUE), VideoBlock(40, -20, TRUE), VideoBlock(80, 20, TRUE) >> >>

\* C4: on the B-frame stream, the three decode_frame()/advance() pairs of
\* the alternating host all return Ok, and the frames they deliver are
\* three different frames, at 0, 20 and 60 ticks in this order.
C4_BFramesInOrder ==
    (reader.clusters = BFrameClusters /\ paired /\ pc = "idle" /\ Len(shown) < 3)
        => /\ result = "Ok"
           /\ \A k \in 1..Len(shown) : Ticks(shown[k]) = << 0, 20, 60 >>[k]
           /\ \A i, j \in 1..Len(shown) : i # j => shown[i].source # shown[j].source

\* The audio frames of the stream, by name (cluster, position).
AudioFrames(rd) ==
    UNION { { << c - 1, b >> : b \in { b \in 1..Len(rd.clusters[c]) :
                                          IsAudioBlock(rd.clusters[c][b]) } } :
            c \in 1..Len(rd.clusters) }

\* C5: with a video and an audio track, when a decode_frame() call of the
\* alternating host returns Ok, every audio frame of the stream whose time
\* is before the next video frame's has gone into an accumulator: the one
\* of this call for the frames from the last video frame's time on, those
\* of the earlier calls for the frames before.
C5_AudioCoversInterval ==
    (IsSome(video) /\ IsSome(audio) /\ paired
        /\ pc = "idle" /\ call = "decode_frame" /\ result = "Ok")
        => \A name \in AudioFrames(reader) :
              DurationLt(Duration(BlockFrame(reader, name[1], name[2]).time),
                         Duration(Unwrap(next_frame_presentation_time)))
                  => name \in heard

----------------------------------------------------------------------------
(* Properties of the GIF container and decoder.                            *)

IsImage(record) == record.type = "image"
IsGraphics(record) == record.type = "extension" /\ record.function = "graphics"

\* The delays d_0, d_1, ... of the images of a stream: that of the graphics
\* control extension before each image, 0 for an image without one.
RECURSIVE ImageDelays(_, _)
ImageDelays(records, delay) ==
    IF records = << >>
    THEN << >>
    ELSE IF IsImage(Head(records))
         THEN << delay >> \o ImageDelays(Tail(records), 0)
         ELSE ImageDelays(Tail(records),
                          IF IsGraphics(Head(records)) THEN Head(records).DelayTime ELSE delay)

RECURSIVE SumOfFirst(_, _)
SumOfFirst(seq, n) == IF n = 0 THEN 0 ELSE SumOfFirst(seq, n - 1) + seq[n]

\* A stream every image of which can be played: not interlaced, with a
\* color map of its own or the screen's, and one graphics control extension
\* at most.
Playable(rd) ==
    /\ \A k \in 1..Len(rd.records) :
          IsImage(rd.records[k]) =>
              /\ ~rd.records[k].Interlace
              /\ IsSome(rd.records[k].ColorMap) \/ IsSome(rd.SColorMap)
    /\ \A i, j \in 1..Len(rd.records) :
          (i < j /\ IsGraphics(rd.records[i]) /\ IsGraphics(rd.records[j]))
              => \E m \in (i + 1)..(j - 1) : IsImage(rd.records[m])

\* C6: on a GIF of n >= 1 images with delays d_0 .. d_(n-1), the k-th
\* decode_frame()/advance() pair of the alternating host returns Ok and
\* delivers a frame at d_0 + ... + d_(k-2) ticks of 1/100 s, for k = 1..n,
\* and the decode_frame() call after the n-th pair returns Err.
C6_GifFrameTimes ==
    LET delays == ImageDelays(reader.records, 0)
        n == Len(delays)
    IN  (Playable(reader) /\ n >= 1 /\ paired /\ pc = "idle")
            => /\ \A k \in 1..Len(shown) :
                     shown[k].presentation_time = Timestamp(SumOfFirst(delays, k - 1), 100)
               /\ (call = "decode_frame" /\ Len(shown) < n) => result = "Ok"
               /\ call = "advance" => result = "Ok"
               /\ (call = "decode_frame" /\ Len(shown) = n) => result = "Err"

NoImages(rd) == \A k \in 1..Len(rd.records) : ~IsImage(rd.records[k])

\* C7: on a GIF stream without an image, Player::new gives a player with a
\* video track, and every decode_frame() call, the first one included,
\* returns Err.
C7_NoImagesFails ==
    NoImages(reader)
        => /\ IsSome(video)
           /\ pc # "aborted"
           /\ (call = "decode_frame" /\ pc = "idle") => result = "Err"

\* The first decode_frame() on a stream of extensions only has returned Err.
C7_Witness ==
    /\ NoImages(reader)
    /\ Len(reader.records) >= 2
    /\ call = "decode_frame"
    /\ pc = "idle"
    /\ result = "Err"
    /\ shown = << >>

\* C8: the pixels of every GIF frame advance() returned are an RGBA canvas
\* of logical width x logical height x 4 bytes, and the frame's width and
\* height are the logical screen's.
C8_RgbaCanvas ==
    \A k \in 1..Len(shown) :
        /\ Len(shown[k].pixels) = reader.SWidth * reader.SHeight * 4
        /\ shown[k].width = reader.SWidth
        /\ shown[k].height = reader.SHeight

\* C9: the four passes over an interlaced image of height H write rows
\* below H only, no row twice, and all of the rows 0 .. H-1 when they end.
C9_RowsWrittenOnce ==
    pc = "read_image"
        => LET st == reader.interlace
               H == reader.records[1].Height
           IN  /\ st.status # "panic"
               /\ \A k \in 1..Len(st.rows) : st.rows[k] < H
               /\ \A i, j \in 1..Len(st.rows) : i # j => st.rows[i] # st.rows[j]
               /\ st.status = "done" => { st.rows[k] : k \in 1..Len(st.rows) } = 0..(H - 1)

\* C10: for every image the container has read, Frame::read writes
\* Frame::len() = 2 + 3N + width * height bytes: N as a little-endian u16,
\* the N colors of the image's own color map, or else of the screen's, and
\* the indices; and the decoder gets the same colors and indices back.
C10_FrameReadRoundTrip ==
    \A i \in 0..(Len(reader.SavedImages) - 1) :
        LET image == reader.SavedImages[i + 1]
            active == IF IsSome(image.ColorMap) THEN image.ColorMap ELSE reader.SColorMap
        IN  /\ IsSome(active)
            /\ LET colors == Unwrap(active)
                   N == Len(colors)
                   data == GifFrameRead(reader, i)
                   decoded == GifDecodeFrame(data)
               IN  /\ Len(data) = GifFrameLen(reader, i)
                   /\ Len(data) = 2 + 3 * N + image.Width * image.Height
                   /\ data[1] = N % 256 /\ data[2] = N \div 256
                   /\ \A k \in 1..N :
                         /\ data[3 * k] = colors[k].Red
                         /\ data[3 * k + 1] = colors[k].Green
                         /\ data[3 * k + 2] = colors[k].Blue
                   /\ SubSeq(data, 3 + 3 * N, Len(data)) = image.RasterBits
                   /\ decoded.status = "Ok"
                   /\ decoded.palette = [ k \in 1..N |-> [ r |-> colors[k].Red,
                                                           g |-> colors[k].Green,
                                                           b |-> colors[k].Blue ] ]
                   /\ decoded.pixels = image.RasterBits

----------------------------------------------------------------------------
(* Properties of the registries.                                           *)

SupportedMimeTypes ==
    { "image/gif", "video/webm", "video/x-matroska", "audio/mp4", "audio/quicktime",
      "video/mp4", "video/quicktime" }

Range(seq) == { seq[i] : i \in 1..Len(seq) }

\* out is the first entry of decoders whose id is codec_id, or failure
\* when there is none.
FirstWithId(decoders, codec_id, out) ==
    /\ (out.status = "Ok") <=> (\E k \in 1..Len(decoders) : decoders[k].id = codec_id)
    /\ out.status = "Ok" =>
          \E k \in 1..Len(decoders) :
              /\ out.entry = decoders[k]
              /\ decoders[k].id = codec_id
              /\ \A j \in 1..(k - 1) : decoders[j].id # codec_id
    /\ out.status # "Ok" => out = [ status |-> "Err" ]

\* C11: a registry lookup succeeds exactly when a registered entry
\* matches, and then returns the first matching entry:
\* RegisteredContainerReader::get succeeds exactly for the seven supported
\* MIME types, compared as whole strings, and RegisteredVideoDecoder::get
\* and RegisteredAudioDecoder::get succeed exactly when the id of some
\* entry equals the codec id; every other lookup fails and returns no entry.
C11_RegistryLookup ==
    /\ input.fn = "RegisteredContainerReader::get" =>
          /\ (output.status = "Ok") <=> (input.arg \in SupportedMimeTypes)
          /\ output.status = "Ok" =>
                \E k \in 1..Len(CONTAINER_READERS) :
                    /\ output.entry = CONTAINER_READERS[k]
                    /\ input.arg \in Range(CONTAINER_READERS[k].mime_types)
                    /\ \A j \in 1..(k - 1) :
                           input.arg \notin Range(CONTAINER_READERS[j].mime_types)
          /\ output.status # "Ok" => output = [ status |-> "Err" ]
    /\ input.fn = "RegisteredVideoDecoder::get" =>
          FirstWithId(VIDEO_DECODERS(input.build), input.arg, output)
    /\ input.fn = "RegisteredAudioDecoder::get" =>
          FirstWithId(AUDIO_DECODERS(input.build), input.arg, output)

\* Two entries of the audio table have the id asked for, and the lookup
\* returned the first of them.
C11_Witness ==
    /\ input.fn = "RegisteredAudioDecoder::get"
    /\ input.build.macos /\ input.build.ffmpeg
    /\ input.arg = AudioUnitAudioDecoder.id
    /\ output.status = "Ok"
    /\ output.entry = LibavcodecAudioDecoder

----------------------------------------------------------------------------
(* Properties of create_avcc_chunk.                                        *)

\* The sum of 2 + len over the headers of a list.
RECURSIVE SumOfLengthPrefixedTo(_, _)
SumOfLengthPrefixedTo(headers, n) ==
    IF n = 0 THEN 0
    ELSE SumOfLengthPrefixedTo(headers, n - 1) + 2 + Len(headers[n])

SumOfLengthPrefixed(headers) == SumOfLengthPrefixedTo(headers, Len(headers))

\* create_avcc_chunk was called with both lists of headers present.
AvccCalled == output # << >> /\ IsSome(input.h264_seq_headers) /\ IsSome(input.h264_pict_headers)

SeqHeaders == Unwrap(input.h264_seq_headers)
PictHeaders == Unwrap(input.h264_pict_headers)

\* The seq_count field: the low five bits of byte 5.
SeqCountField(avcc) == avcc[6] % 32

\* C12 as stated: for every list of seq headers and of pict headers the
\* chunk has 5 + the sum of (2 + len) over the seq headers + 1 + the sum of
\* (2 + len) over the pict headers bytes, and the seq_count field of byte 5
\* is the number of seq headers.
C12_AvccLengthFiveFixed ==
    AvccCalled =>
        /\ output.status = "Ok"
        /\ Len(output.avcc) = 5 + SumOfLengthPrefixed(SeqHeaders)
                                + 1 + SumOfLengthPrefixed(PictHeaders)
        /\ SeqCountField(output.avcc) = Len(SeqHeaders)

\* C12 amended: for every non-empty list of seq headers whose first header
\* has at least 4 bytes, and every list of pict headers, the chunk has
\* 6 + the sum of (2 + len) over the seq headers + 1 + the sum of (2 + len)
\* over the pict headers bytes, and with fewer than 32 seq headers the
\* seq_count field of byte 5 is their number.
C12_AvccLength ==
    (AvccCalled /\ Len(SeqHeaders) > 0 /\ Len(SeqHeaders[1]) >= 4) =>
        /\ output.status = "Ok"
        /\ Len(output.avcc) = 6 + SumOfLengthPrefixed(SeqHeaders)
                                + 1 + SumOfLengthPrefixed(PictHeaders)
        /\ Len(SeqHeaders) < 32 => SeqCountField(output.avcc) = Len(SeqHeaders)

\* A chunk was built from two seq headers and two pict headers of
\* different lengths.
C12_Witness ==
    /\ AvccCalled
    /\ output.status = "Ok"
    /\ Len(SeqHeaders) = 2 /\ Len(SeqHeaders[1]) # Len(SeqHeaders[2])
    /\ Len(PictHeaders) = 2 /\ Len(PictHeaders[1]) # Len(PictHeaders[2])

\* Reading n length-prefixed headers back from position pos: a 2-byte
\* big-endian length, then that many bytes.
RECURSIVE ParseHeaders(_, _, _)
ParseHeaders(bytes, pos, n) ==
    IF n = 0 THEN [ ok |-> TRUE, headers |-> << >>, pos |-> pos ]
    ELSE IF pos + 1 > Len(bytes) THEN [ ok |-> FALSE, headers |-> << >>, pos |-> pos ]
    ELSE LET len == bytes[pos] * 256 + bytes[pos + 1]
         IN  IF pos + 1 + len > Len(bytes)
             THEN [ ok |-> FALSE, headers |-> << >>, pos |-> pos ]
             ELSE LET rest == ParseHeaders(bytes, pos + 2 + len, n - 1)
                  IN  [ ok |-> rest.ok,
                        headers |-> << SubSeq(bytes, pos + 2, pos + 1 + len) >> \o rest.headers,
                        pos |-> rest.pos ]

\* Reading a chunk back: seq_count of byte 5, the seq headers, the
\* pict_count byte, the pict headers, and nothing after them.
ParseAvcc(avcc) ==
    LET seqs == ParseHeaders(avcc, 7, SeqCountField(avcc))
    IN  IF ~seqs.ok \/ seqs.pos > Len(avcc)
        THEN [ ok |-> FALSE, seq_headers |-> << >>, pict_headers |-> << >> ]
        ELSE LET picts == ParseHeaders(avcc, seqs.pos + 1, avcc[seqs.pos])
             IN  [ ok |-> picts.ok /\ picts.pos = Len(avcc) + 1,
                   seq_headers |-> seqs.headers,
                   pict_headers |-> picts.headers ]

\* The chunk starts with 0x01, bytes 1..3 of the first seq header, 0xFF and
\* 0xE0 | seq_count, and reading it back gives the two lists of headers.
AvccRoundTrip ==
    /\ output.status = "Ok"
    /\ SubSeq(output.avcc, 1, 6) =
           << 1, SeqHeaders[1][2], SeqHeaders[1][3], SeqHeaders[1][4], 255,
              BitOr(224, Len(SeqHeaders)) >>
    /\ ParseAvcc(output.avcc) =
           [ ok |-> TRUE, seq_headers |-> SeqHeaders, pict_headers |-> PictHeaders ]

\* C13 as stated: for every non-empty list of seq headers and every list of
\* pict headers the chunk starts with 0x01, bytes 1..3 of the first seq
\* header, 0xFF, 0xE0 | seq_count, and parsing its 2-byte big-endian length
\* fields back gives exactly the original seq and pict header lists.
C13_AvccRoundTripEveryList ==
    (AvccCalled /\ Len(SeqHeaders) > 0) => AvccRoundTrip

\* C13 amended: the same for every list of 1 to 31 seq headers whose first
\* header has at least 4 bytes and every list of at most 255 pict headers,
\* each header shorter than 65536 bytes.
C13_AvccRoundTrip ==
    ( /\ AvccCalled
      /\ Len(SeqHeaders) > 0 /\ Len(SeqHeaders) < 32 /\ Len(SeqHeaders[1]) >= 4
      /\ Len(PictHeaders) < 256
      /\ \A k \in 1..Len(SeqHeaders) : Len(SeqHeaders[k]) < 65536
      /\ \A k \in 1..Len(PictHeaders) : Len(PictHeaders[k]) < 65536 )
    => AvccRoundTrip

\* The chunk of the seq header 67 42 00 1E and the pict header 68 CE starts
\* with 01 42 00 1E FF E1.
C13_Witness ==
    /\ AvccCalled
    /\ SeqHeaders = << << 103, 66, 0, 30 >> >>
    /\ PictHeaders = << << 104, 206 >> >>
    /\ output.status = "Ok"
    /\ SubSeq(output.avcc, 1, 6) = << 1, 66, 0, 30, 255, 225 >>
    /\ ParseAvcc(output.avcc).ok

----------------------------------------------------------------------------
(* Properties of Cluster::read_frame.                                      *)

\* The positions in the cluster of the blocks of a track.
PositionsOfTrack(cluster, track_number) ==
    { i \in 1..Len(cluster) : cluster[i].track_number = track_number }

\* In a container of blocks: the frame read is the frame_index-th block
\* (from 0) of the track in cluster order, and the read fails when the
\* cluster has fewer than frame_index + 1 blocks of the track.
ReadsTheBlockOfTheTrack ==
    LET cluster == input.reader.clusters[input.cluster_index + 1]
        positions == PositionsOfTrack(cluster, input.track_number)
    IN  /\ Cardinality(positions) < input.frame_index + 1 => IsNone(output.frame)
        /\ Cardinality(positions) >= input.frame_index + 1 =>
              /\ IsSome(output.frame)
              /\ \E i \in positions :
                    /\ Cardinality({ j \in positions : j < i }) = input.frame_index
                    /\ Unwrap(output.frame).source = << input.cluster_index, i >>
                    /\ Unwrap(output.frame).time.ticks = cluster[i].time

\* C14 as stated: read_frame(frame_index, track_number) returns only frames
\* whose track_number() is the track asked for; from a cluster of blocks it
\* returns the frame_index-th block of that track, and Err when the cluster
\* has fewer than frame_index + 1 blocks of it.
C14_ReadFrameOfRequestedTrack ==
    output # << >> /\ output.status = "read" =>
        /\ IsSome(output.frame) => Unwrap(output.frame).track_number = input.track_number
        /\ input.reader.container = "blocks" => ReadsTheBlockOfTheTrack

\* C14 amended: the same, the frames of a GIF cluster being those of its
\* one track, number 0, whatever track_number is asked for.
C14_ReadFrameOfTrack ==
    output # << >> /\ output.status = "read" =>
        /\ IsSome(output.frame) =>
              Unwrap(output.frame).track_number =
                  IF input.reader.container = "gif" THEN input.reader.tracks[1].number
                  ELSE input.track_number
        /\ input.reader.container = "blocks" => ReadsTheBlockOfTheTrack

\* The second block of track 2 was read from a cluster that has a block of
\* another track between the blocks of track 2.
C14_Witness ==
    /\ output # << >> /\ output.status = "read"
    /\ input.reader.container = "blocks"
    /\ input.frame_index = 1 /\ input.track_number = 2
    /\ IsSome(output.frame)
    /\ Unwrap(output.frame).source = << 0, 4 >>
    /\ input.reader.clusters[1][1].track_number = 2
    /\ input.reader.clusters[1][2].track_number = 1

----------------------------------------------------------------------------
(* Properties of the LZW decoder.                                          *)

\* C15: while an image is decoded, running_bits is at most LZ_BITS = 12,
\* running_code at most LZ_MAX_CODE + 1 = 4096, and the stack holds at most
\* LZ_MAX_CODE = 4095 pixels.
C15_LzwBounds ==
    /\ output.lzw.running_bits <= LZ_BITS
    /\ output.lzw.running_code <= LZ_MAX_CODE + 1
    /\ Len(output.lzw.stack) <= LZ_MAX_CODE

\* A stream decoded on its own from a fresh decoder, with no limit on the
\* pixels: it ends with "no data" when every code was decoded.
LzwDecodeAll(min_code_size, codes) ==
    LzwGetLine(LzwInit(min_code_size), codes, (Len(codes) + 1) * LZ_MAX_CODE)

\* The places of the clear codes of the stream.
ClearCodes == { p \in 1 .. Len(input.codes) : input.codes[p] = Pow2(input.min_code_size) }

\* The pixels of the stream cut at the clear code at p: the ones of the
\* codes before it, and when they were all decoded, the ones of the clear
\* code and the codes after it.
PixelsOfTheTwoStreams(p) ==
    LET first  == LzwDecodeAll(input.min_code_size, SubSeq(input.codes, 1, p - 1))
        second == LzwDecodeAll(input.min_code_size,
                               SubSeq(input.codes, p, Len(input.codes)))
    IN  IF first.status = "no data" THEN first.line \o second.line ELSE first.line

\* No further line is decoded.
LzwDone == output.lzw.status # "ok" \/ output.lines = input.height

Min(a, b) == IF a < b THEN a ELSE b

\* C16: a clear code resets the dictionary: the image decoded from a
\* stream with a clear code in it holds the pixels of the stream before the
\* clear code followed by the pixels of the stream from the clear code on,
\* each decoded on its own, as many as the image has room for; and a
\* literal that follows the clear code is the next pixel.
C16_ClearCodeResets ==
    \A p \in ClearCodes :
        LET pixels  == PixelsOfTheTwoStreams(p)
            before  == LzwDecodeAll(input.min_code_size, SubSeq(input.codes, 1, p - 1))
            decoded == Min(Len(pixels), input.width * input.height)
        IN  /\ LzwDone => output.pixels = SubSeq(pixels, 1, decoded)
            /\ Len(output.pixels) <= Len(pixels)
            /\ \A k \in 1 .. Min(Len(output.pixels), Len(pixels)) :
                   output.pixels[k] = pixels[k]
            /\ ( /\ LzwDone
                 /\ before.status = "no data"
                 /\ p < Len(input.codes)
                 /\ input.codes[p + 1] < Pow2(input.min_code_size)
                 /\ Len(before.line) < input.width * input.height )
               => /\ Len(output.pixels) > Len(before.line)
                  /\ output.pixels[Len(before.line) + 1] = input.codes[p + 1]

\* A stream with two clear codes, each followed by codes that use the
\* dictionary, was decoded to the end: the second segment's code 6 stands for its own first two pixels.
C16_Witness ==
    /\ LzwDone
    /\ input.codes = << 4, 0, 1, 6, 4, 1, 1, 6, 6 >>
    /\ output.lzw.status = "no data"
    /\ output.pixels = << 0, 1, 1, 1, 1, 1, 1, 1, 1, 1 >>

----------------------------------------------------------------------------
(* Properties of the GIF frames' canvas.                                   *)

\* The disposal of the image k of the stream: the one of its graphics
\* control block, DISPOSAL_UNSPECIFIED without one.
DisposalOfImage(k) ==
    LET blocks == reader.SavedImages[k].ExtensionBlocks
        graphics == { b \in 1..Len(blocks) : blocks[b].function = "graphics" }
    IN  IF graphics = {} THEN DISPOSAL_UNSPECIFIED
        ELSE DisposalModeOf(blocks[CHOOSE b \in graphics : \A c \in graphics : c <= b])

\* The pixel of a frame at (row, column) of the screen, as many bytes as the
\* frame has for each pixel of the screen.
CanvasPixel(pixels, row, column) ==
    LET bytes == Len(pixels) \div (reader.SWidth * reader.SHeight)
        first == ((row - 1) * reader.SWidth + (column - 1)) * bytes
    IN  SubSeq(pixels, first + 1, first + bytes)

ZeroPixels(pixels) == [ i \in 1..Len(pixels) |-> 0 ]

\* The canvas the frame k starts from, by the disposal of the frame before.
InitialCanvas(k) ==
    IF k = 1 THEN ZeroPixels(shown[k].pixels)
    ELSE IF DisposalOfImage(k - 1) \in { DISPOSAL_UNSPECIFIED, DISPOSE_DO_NOT }
         THEN shown[k - 1].pixels
    ELSE IF DisposalOfImage(k - 1) = DISPOSE_BACKGROUND THEN ZeroPixels(shown[k].pixels)
    ELSE IF k > 2 THEN shown[k - 2].pixels
    ELSE ZeroPixels(shown[k].pixels)

\* C17: every GIF frame advance() returned is a canvas of the logical
\* screen, and where the frame's image did not paint it holds the canvas the
\* disposal of the frame before gives: the frame before for UNSPECIFIED and
\* DO_NOT, zeros for BACKGROUND, the frame before the frame before for
\* PREVIOUS, and zeros where there is no such frame.
C17_CanvasFromDisposal ==
    \A k \in 1..Len(shown) :
        /\ Len(shown[k].pixels) \in { reader.SWidth * reader.SHeight,
                                      reader.SWidth * reader.SHeight * 4 }
        /\ \A row \in 1..reader.SHeight, column \in 1..reader.SWidth :
              (row > reader.SavedImages[k].Height \/ column > reader.SavedImages[k].Width)
                  => CanvasPixel(shown[k].pixels, row, column)
                         = CanvasPixel(InitialCanvas(k), row, column)

----------------------------------------------------------------------------
(* Properties of the video loop of decode_frame.                           *)

\* The stop condition as stated: no frame_delay and a queued frame, or a
\* queued frame at most nearest ticks from last.ticks + frame_delay or more
\* than 1000 ticks after it.
StopConditionHolds(nearest) ==
    /\ IsSome(video)
    /\ \/ IsNone(frame_delay) /\ Len(Unwrap(video).frames) >= 1
       \/ /\ IsSome(frame_delay)
          /\ IsSome(last_frame_presentation_time)
          /\ \E k \in 1..Len(Unwrap(video).frames) :
                LET due == Unwrap(last_frame_presentation_time).ticks + Unwrap(frame_delay)
                    at  == Unwrap(video).frames[k].presentation_time.ticks
                IN  \/ (at - due <= nearest /\ due - at <= nearest)
                    \/ at - due > 1000

\* A step of the video loop that reads, or fails to read, a video frame.
ReadsVideoFrame ==
    /\ pc = "videoloop"
    /\ \/ Unwrap(video').frame_index # Unwrap(video).frame_index
       \/ cluster_index' # cluster_index

\* A step that leaves the video loop for the audio or the return.
LeavesVideoLoop ==
    /\ pc = "videoloop"
    /\ pc' \in { "audio", "idle" }

ReturnedOkWithVideo ==
    /\ IsSome(video)
    /\ call = "decode_frame"
    /\ pc = "idle"
    /\ result = "Ok"

\* C18 as stated: with |delta| <= 5 for the next frame, the video loop is
\* left only when the stop condition holds, no video frame is read when it
\* holds, and it holds when decode_frame() has returned Ok.
C18_StopsWithinFiveInclusive ==
    /\ [][ (LeavesVideoLoop => StopConditionHolds(5))
           /\ (ReadsVideoFrame => ~StopConditionHolds(5)) ]_vars
    /\ [](ReturnedOkWithVideo => StopConditionHolds(5))

\* C18: with |delta| < 5 for the next frame, the video loop is left only
\* when the stop condition holds, no video frame is read when it holds, and
\* it holds when decode_frame() has returned Ok.
C18_StopsWithinFive ==
    /\ [][ (LeavesVideoLoop => StopConditionHolds(4))
           /\ (ReadsVideoFrame => ~StopConditionHolds(4)) ]_vars
    /\ [](ReturnedOkWithVideo => StopConditionHolds(4))

\* decode_frame() returned Ok on a queued frame 4 ticks from the next
\* frame's time, with no frame in the far future.
C18_Witness ==
    /\ ReturnedOkWithVideo
    /\ IsSome(frame_delay)
    /\ \A k \in 1..Len(Unwrap(video).frames) :
          Unwrap(video).frames[k].presentation_time.ticks
              - (Unwrap(last_frame_presentation_time).ticks + Unwrap(frame_delay)) \in { -4, 4 }
    /\ Unwrap(video).frames # << >>

\* A step of the video loop that read a video frame and gave it to the
\* decoder.
DecodesVideoFrame ==
    /\ pc = "videoloop"
    /\ Unwrap(video').frame_index = Unwrap(video).frame_index + 1

\* The queue after the step holds no frame before least, and the frames
\* from least on in their order: the ones that were queued, and after them
\* the frame of the step when the decoder produced it.
PrunedFrom(least) ==
    LET v == Unwrap(video)
        queued == v.frames
        frames == Unwrap(video').frames
        frame == Unwrap(ClusterReadFrame(reader, cluster_index, v.frame_index, v.track_number))
        at == frame.time.ticks + frame.rendering_offset
        kept == { k \in 1..Len(queued) : Ticks(queued[k]) >= least }
        Rank(k) == Cardinality({ m \in kept : m <= k })
    IN  /\ \A k \in 1..Len(frames) : Ticks(frames[k]) >= least
        /\ Len(frames) >= Cardinality(kept)
        /\ \A k \in kept : frames[Rank(k)] = queued[k]
        /\ IF frame.ok /\ at >= least
           THEN /\ Len(frames) = Cardinality(kept) + 1
                /\ Ticks(frames[Len(frames)]) = at
                /\ frames[Len(frames)].source = frame.source
           ELSE Len(frames) = Cardinality(kept)

\* C19 as stated: after a video decode with last_frame_presentation_time
\* known, the queue holds no frame with ticks <= last.ticks, and the frames
\* with larger ticks in their order.
C19_PrunedUpToLast ==
    [][ (DecodesVideoFrame /\ IsSome(last_frame_presentation_time))
            => PrunedFrom(Unwrap(last_frame_presentation_time).ticks + 1) ]_vars

\* C19: after a video decode with last_frame_presentation_time known, the
\* queue holds no frame with ticks < last.ticks, and the frames with ticks
\* >= last.ticks in their order.
C19_PrunedBeforeLast ==
    [][ (DecodesVideoFrame /\ IsSome(last_frame_presentation_time))
            => PrunedFrom(Unwrap(last_frame_presentation_time).ticks) ]_vars

\* In the video loop, after a frame was decoded with the last frame's time
\* known: a frame at that time and a later one are queued.
C19_Witness ==
    /\ pc = "videoloop"
    /\ IsSome(video)
    /\ IsSome(last_frame_presentation_time)
    /\ Unwrap(video).frame_index >= 2
    /\ \E k \in 1..Len(Unwrap(video).frames) :
          Ticks(Unwrap(video).frames[k]) = Unwrap(last_frame_presentation_time).ticks
    /\ \E k \in 1..Len(Unwrap(video).frames) :
          Ticks(Unwrap(video).frames[k]) > Unwrap(last_frame_presentation_time).ticks

\* The video loop is about to read the frame frame_index of the cluster.
AttemptsVideoRead == pc = "videoloop" /\ ~StopConditionHolds(4)

\* What Cluster::read_frame gives for it.
NextVideoFrame ==
    ClusterReadFrame(reader, cluster_index, Unwrap(video).frame_index,
                     Unwrap(video).track_number)

\* C20: a failed read of the next video frame adds 1 to cluster_index, sets
\* video.frame_index and audio.frame_index to 0, leaves the queued frames
\* and goes back to the head of the cluster loop; a read that succeeds adds
\* 1 to video.frame_index, whether the decoder produced a frame or not, and
\* leaves cluster_index and the audio track.
C20_RolloverAndCount ==
    /\ [][ (AttemptsVideoRead /\ IsNone(NextVideoFrame))
              => /\ cluster_index' = cluster_index + 1
                 /\ Unwrap(video').frame_index = 0
                 /\ IsSome(audio) => (IsSome(audio') /\ Unwrap(audio').frame_index = 0)
                 /\ Unwrap(video').frames = Unwrap(video).frames
                 /\ pc' = "clusterloop" ]_vars
    /\ [][ (AttemptsVideoRead /\ IsSome(NextVideoFrame) /\ pc' # "aborted")
              => /\ Unwrap(video').frame_index = Unwrap(video).frame_index + 1
                 /\ Len(Unwrap(video').frames) <= Len(Unwrap(video).frames) + 1
                 /\ cluster_index' = cluster_index
                 /\ audio' = audio
                 /\ pc' = "videoloop" ]_vars

\* decode_frame() is back at the head of the cluster loop after a failed
\* read, on the second cluster or a later one, with a video frame queued
\* and an audio track.
C20_Witness ==
    /\ pc = "clusterloop"
    /\ call = "decode_frame"
    /\ cluster_index >= 1
    /\ IsSome(video)
    /\ IsSome(audio)
    /\ Unwrap(video).frame_index = 0
    /\ Unwrap(audio).frame_index = 0
    /\ Unwrap(video).frames # << >>

----------------------------------------------------------------------------
(* Properties of decode_frame() and advance() together.                    *)

\* The queue without its frame at index.
QueueWithout(queue, index) ==
    SubSeq(queue, 1, index - 1) \o SubSeq(queue, index + 1, Len(queue))

\* C21: when decode_frame() has returned Ok on a player with a video track,
\* next_frame_presentation_time is the least presentation time of the
\* queue; the advance() called next returns Ok with a queued frame of that
\* time and takes that frame alone out of the queue.
C21_NextIsLeastAndAdvanceTakesIt ==
    /\ [](ReturnedOkWithVideo
            => /\ Unwrap(video).frames # << >>
               /\ IsSome(next_frame_presentation_time)
               /\ \E k \in 1..Len(Unwrap(video).frames) :
                     Unwrap(video).frames[k].presentation_time
                         = Unwrap(next_frame_presentation_time)
               /\ \A k \in 1..Len(Unwrap(video).frames) :
                     Unwrap(next_frame_presentation_time).ticks
                         <= Unwrap(video).frames[k].presentation_time.ticks)
    /\ [][ (ReturnedOkWithVideo /\ call' = "advance")
              => /\ result' = "Ok"
                 /\ IsSome(returned')
                 /\ IsSome(Unwrap(returned').video_frame)
                 /\ Unwrap(Unwrap(returned').video_frame).presentation_time
                        = Unwrap(next_frame_presentation_time)
                 /\ \E index \in 1..Len(Unwrap(video).frames) :
                       /\ Unwrap(video).frames[index] = Unwrap(Unwrap(returned').video_frame)
                       /\ Unwrap(video').frames = QueueWithout(Unwrap(video).frames, index) ]_vars

\* advance() returned a frame right after a successful decode_frame() and
\* left a later frame in the queue that was read, and queued, before it.
C21_Witness ==
    /\ call = "advance"
    /\ result = "Ok"
    /\ paired
    /\ IsSome(video)
    /\ Len(Unwrap(video).frames) = 1
    /\ Unwrap(video).frames[1].presentation_time.ticks
           > Unwrap(Unwrap(returned).video_frame).presentation_time.ticks
    /\ Unwrap(video).frames[1].source[1] = Unwrap(Unwrap(returned).video_frame).source[1]
    /\ Unwrap(video).frames[1].source[2] < Unwrap(Unwrap(returned).video_frame).source[2]

\* A step in which advance() is called and returns.
AdvanceReturns == pc = "idle" /\ call' = "advance" /\ pc' = "idle"

\* C22: an advance() that finds last_frame_presentation_time known sets
\* frame_delay to next.ticks - last.ticks of the values it finds, whether it
\* returns Ok or Err; one that finds it unknown leaves frame_delay as it
\* is; and frame_delay is unknown as long as last_frame_presentation_time
\* is, which only advance() sets.
C22_AdvanceLearnsDelay ==
    /\ [][ AdvanceReturns
              => IF IsSome(last_frame_presentation_time)
                 THEN frame_delay' = Some(Unwrap(next_frame_presentation_time).ticks
                                            - Unwrap(last_frame_presentation_time).ticks)
                 ELSE frame_delay' = frame_delay ]_vars
    /\ [][ last_frame_presentation_time' # last_frame_presentation_time
              => call' = "advance" ]_vars
    /\ [](IsNone(last_frame_presentation_time) => IsNone(frame_delay))

\* The second advance() of a player returned: the first frame was at 0, the
\* second 20 ticks later, and frame_delay is 20.
C22_Witness ==
    /\ call = "advance"
    /\ pc = "idle"
    /\ paired
    /\ Len(shown) = 2
    /\ shown[1].presentation_time.ticks = 0
    /\ shown[2].presentation_time.ticks = 20
    /\ frame_delay = Some(20)

----------------------------------------------------------------------------
(* Properties of the audio loop of decode_frame.                           *)

\* What Cluster::read_frame gives for the next audio frame.
NextAudioFrame ==
    ClusterReadFrame(reader, cluster_index, Unwrap(audio).frame_index,
                     Unwrap(audio).track_number)

\* A step of the audio loop that counted a frame.
CountsAudioFrame ==
    /\ IsSome(NextAudioFrame)
    /\ Unwrap(audio').frame_index = Unwrap(audio).frame_index + 1

\* C23: the audio part starts from one empty vector per channel.  Without a
\* video track the audio loop returns Ok only by reading one frame, whose
\* time becomes next_frame_presentation_time.  With a video track the loop
\* goes on while it reads frames whose time is before
\* next_frame_presentation_time, and ends on the first frame that is not,
\* or on a failed read.
C23_AudioLoop ==
    /\ [][ (pc = "audio" /\ pc' = "audioloop")
              => Unwrap(audio').samples
                    = Some([ channel \in 1..Unwrap(audio).channels |-> << >> ]) ]_vars
    /\ [][ (IsNone(video) /\ pc = "audioloop" /\ pc' = "idle" /\ result' = "Ok")
              => /\ CountsAudioFrame
                 /\ next_frame_presentation_time' = Some(Unwrap(NextAudioFrame).time) ]_vars
    /\ [][ (IsNone(video) /\ pc = "audioloop") => pc' # "audioloop" ]_vars
    /\ [][ (IsSome(video) /\ pc = "audioloop" /\ pc' = "audioloop")
              => /\ CountsAudioFrame
                 /\ ~DurationGe(Duration(Unwrap(NextAudioFrame).time),
                                Duration(Unwrap(next_frame_presentation_time))) ]_vars
    /\ [][ (IsSome(video) /\ pc = "audioloop" /\ pc' = "idle")
              => \/ IsNone(NextAudioFrame) /\ audio' = audio
                 \/ /\ CountsAudioFrame
                    /\ DurationGe(Duration(Unwrap(NextAudioFrame).time),
                                  Duration(Unwrap(next_frame_presentation_time))) ]_vars

\* C24: a video frame the decoder rejects is counted and not queued, the
\* video loop goes on and the call has not returned; an audio frame the
\* decoder rejects is counted and leaves the accumulator as it is, and the
\* call goes on or returns Ok.
C24_DecoderFailureAbsorbed ==
    /\ [][ (AttemptsVideoRead /\ IsSome(NextVideoFrame) /\ ~Unwrap(NextVideoFrame).ok)
              => /\ Unwrap(video').frame_index = Unwrap(video).frame_index + 1
                 /\ \A k \in 1..Len(Unwrap(video').frames) :
                       /\ Unwrap(video').frames[k].source # Unwrap(NextVideoFrame).source
                       /\ \E m \in 1..Len(Unwrap(video).frames) :
                             Unwrap(video).frames[m] = Unwrap(video').frames[k]
                 /\ pc' = "videoloop"
                 /\ result' = "pending" ]_vars
    /\ [][ (pc = "audioloop" /\ IsSome(NextAudioFrame) /\ ~Unwrap(NextAudioFrame).ok)
              => /\ Unwrap(audio').frame_index = Unwrap(audio).frame_index + 1
                 /\ Unwrap(audio').samples = Unwrap(audio).samples
                 /\ \/ pc' = "audioloop" /\ result' = "pending"
                    \/ pc' = "idle" /\ result' = "Ok" ]_vars

\* The video loop has counted the first video frame of the stream, which
\* the decoder rejected, and goes on with an empty queue; no frame was
\* shown yet, so none was thrown out as too late.
C24_Witness ==
    /\ pc = "videoloop"
    /\ result = "pending"
    /\ IsNone(last_frame_presentation_time)
    /\ Unwrap(video).frame_index = 1
    /\ Unwrap(video).frames = << >>
    /\ ~reader.clusters[1][1].ok
    /\ Len(reader.clusters[1]) >= 4

----------------------------------------------------------------------------
(* Properties of Player::new.                                              *)

\* The first track of a type, in index order.
FirstOfType(type) ==
    LET ks == { k \in 1..Len(input.tracks) : input.tracks[k].type = type }
    IN  IF ks = {} THEN 0 ELSE CHOOSE k \in ks : \A m \in ks : k <= m

\* C25: the player Player::new gives plays the first video track and the
\* first audio track, and the decoder it keeps for each was built from the
\* headers and the dimensions, or the sample rate and the channels, of that
\* track, by the decoder registered for that track's FourCC.
C25_DecoderOfSelectedTrack ==
    (output # << >> /\ output.status = "Ok")
        => /\ IsSome(output.video) = (FirstOfType("video") # 0)
           /\ IsSome(output.audio) = (FirstOfType("audio") # 0)
           /\ IsSome(output.video)
                 => LET track == input.tracks[FirstOfType("video")]
                        codec == Unwrap(output.video).codec
                    IN  /\ Unwrap(output.video).track_number = track.number
                        /\ codec.headers = track.number
                        /\ codec.width = track.width
                        /\ codec.height = track.height
                        /\ \E decoder \in Range(VIDEO_DECODERS(input.build)) :
                              /\ decoder.name = codec.decoder
                              /\ IsSome(track.codec)
                              /\ decoder.id = Unwrap(track.codec)
           /\ IsSome(output.audio)
                 => LET track == input.tracks[FirstOfType("audio")]
                        codec == Unwrap(output.audio).codec
                    IN  /\ Unwrap(output.audio).track_number = track.number
                        /\ codec.headers = track.number
                        /\ codec.sample_rate = track.sampling_rate
                        /\ codec.channels = track.channels
                        /\ \E decoder \in Range(AUDIO_DECODERS(input.build)) :
                              /\ decoder.name = codec.decoder
                              /\ IsSome(track.codec)
                              /\ decoder.id = Unwrap(track.codec)

----------------------------------------------------------------------------
(* Properties of the track views of the container adapters.                *)

\* C26: on every track view of every adapter is_video() is true exactly
\* when track_type() yields the Video variant, and is_audio() is true
\* exactly when track_type() yields the Audio variant.
C26_ClassifiersAgreeWithVariant ==
    (output # << >> /\ output.op = "classify")
        => /\ output.is_video = (output.track_type = "Video")
           /\ output.is_audio = (output.track_type = "Audio")

\* The clusters the file behind a view has.
ClustersOf(view) ==
    IF view.adapter = "mp4" THEN 1
    ELSE IF view.adapter = "mkv" THEN view.segment.count
    ELSE Cardinality({ k \in 1..Len(view.file.records) :
                          view.file.records[k].type = "image" })

\* C27: cluster(index) of every track view, generic, video or audio,
\* returns a cluster or a failure value and never aborts, and for an index
\* that is out of range (not 0 on an MP4 track, past the last image of a
\* GIF) it returns Err.
C27_ClusterOrErr ==
    (output # << >> /\ output.op = "cluster")
        => /\ output.status \in { "Ok", "Err" }
           /\ (input.view.adapter \in { "mp4", "gif" }
               /\ input.cluster_index >= ClustersOf(input.view))
                 => output.status = "Err"

----------------------------------------------------------------------------
(* Properties of the three timestamps of the Player.                       *)

\* C28: in every state the frame delay is known only when the last frame's
\* presentation time is, and the last only when the next is; so the
\* unwrap() of the last time in the video loop, of the next time in the
\* audio loop and of the next time in advance() never fail.
C28_KnownTimesOrdered ==
    /\ [](/\ IsSome(frame_delay) => IsSome(last_frame_presentation_time)
          /\ IsSome(last_frame_presentation_time) => IsSome(next_frame_presentation_time)
          /\ (pc = "videoloop" /\ IsSome(frame_delay))
                => IsSome(last_frame_presentation_time)
          /\ (pc = "audioloop" /\ IsSome(video))
                => IsSome(next_frame_presentation_time))
    /\ [][(pc = "idle" /\ call' = "advance" /\ IsSome(last_frame_presentation_time))
             => /\ IsSome(next_frame_presentation_time)
                /\ result' = "panic"
                      => (IsSome(audio) /\ IsNone(Unwrap(audio).samples))]_vars

\* The video loop of a player with a video and an audio track whose frame
\* delay is known, about to unwrap the last time: advance() has unwrapped
\* the next time twice and the audio loop has, for the frames heard.
C28_Witness ==
    /\ pc = "videoloop"
    /\ IsSome(video)
    /\ IsSome(audio)
    /\ IsSome(frame_delay)
    /\ IsSome(last_frame_presentation_time)
    /\ IsSome(next_frame_presentation_time)
    /\ heard # {}
    /\ Len(shown) >= 2

----------------------------------------------------------------------------
(* Properties of a decode_frame() that finds its frame already queued.     *)

\* A step of a decode_frame() call, the call itself included.
DecodeFrameStep == call' = "decode_frame"

\* C29: a decode_frame() called while the stop condition of the video loop
\* holds, as in a second decode_frame() without an advance() between, reads
\* no video frame and leaves the video queue, video.frame_index,
\* cluster_index, frame_delay and last_frame_presentation_time as they
\* were: every step of the call finds the condition holding and leaves it so.
C29_NothingReadWhenStopHolds ==
    [][(DecodeFrameStep /\ StopConditionHolds(4))
          => /\ ~ReadsVideoFrame
             /\ Unwrap(video').frames = Unwrap(video).frames
             /\ Unwrap(video').frame_index = Unwrap(video).frame_index
             /\ cluster_index' = cluster_index
             /\ frame_delay' = frame_delay
             /\ last_frame_presentation_time' = last_frame_presentation_time
             /\ StopConditionHolds(4)']_vars

\* Only decode_frame() was called, more than once, and the last call
\* returned Ok: it found the frame of the call before it queued.
C29_Witness ==
    /\ ReturnedOkWithVideo
    /\ ~paired
    /\ protocol
    /\ shown = << >>
    /\ StopConditionHolds(4)
    /\ Unwrap(video).frame_index = 1

----------------------------------------------------------------------------
(* Properties of the video queue against the last frame's time.            *)

\* A return from decode_frame() or advance(): the host has the result.
ReturnedFromCall ==
    /\ pc = "idle"
    /\ call \in { "decode_frame", "advance" }

\* C30: at every return from decode_frame() or advance(), whenever the last
\* frame's presentation time is known every frame in the video queue has a
\* presentation time of at least its ticks.
C30_QueueNotBeforeLast ==
    (ReturnedFromCall /\ IsSome(video) /\ IsSome(last_frame_presentation_time))
        => \A k \in 1..Len(Unwrap(video).frames) :
              Ticks(Unwrap(video).frames[k]) >= Unwrap(last_frame_presentation_time).ticks

\* A decode_frame() has returned Ok after a frame that was due before the
\* last frame's time was read and thrown out: the queue is not empty and
\* holds fewer frames than were decoded and not yet shown.
C30_Witness ==
    /\ ReturnedOkWithVideo
    /\ IsSome(last_frame_presentation_time)
    /\ Unwrap(video).frames # << >>
    /\ \E k \in 1..Len(reader.clusters[cluster_index + 1]) :
          LET block == reader.clusters[cluster_index + 1][k]
          IN  /\ block.track_number = Unwrap(video).track_number
              /\ block.ok
              /\ block.time + block.rendering_offset
                    < Unwrap(last_frame_presentation_time).ticks
              /\ \A j \in 1..Len(shown) : shown[j].source # << cluster_index, k >>
              /\ \E j \in 1..Len(Unwrap(video).frames) :
                    /\ Unwrap(video).frames[j].source[1] = cluster_index
                    /\ Unwrap(video).frames[j].source[2] > k

====
